---- MODULE Spec2Model ----
(***************************************************************************)
(* Offset hashing and task generation (src/task-generator): the hasher     *)
(* functions of hasher.ts, the TaskGenerator class of TaskGenerator.ts and *)
(* the callers' view of their results.                                     *)
(*                                                                         *)
(* Strings are sequences of UTF-8 bytes, timestamps are milliseconds,      *)
(* 32-bit words are pairs <<high 16 bits, low 16 bits>> (the model         *)
(* checker's integers are 32-bit signed, the digest prefix is unsigned).   *)
(***************************************************************************)
EXTENDS Integers, Sequences, FiniteSets, TLC

VARIABLES
  gen,        \* the TaskGenerator instance in use: its private fields, or NoGenerator
  now,        \* the wall clock (Date.now()), in ms
  uuidCount,  \* how many times randomUUID() has been called
  ret,        \* the call that has just completed and its outcome, or Idle
  held        \* an earlier result the caller has kept for comparison, or Idle

vars == <<gen, now, uuidCount, ret, held>>

(***************************************************************************)
(* Bounds of the model.                                                    *)
(***************************************************************************)
MaxPatients == 2   \* longest population snapshot handed to a batch call
MaxUuid == 2       \* no call starts once this many task ids were drawn
MaxCycles == 2     \* how many cycles past the first a caller schedules

(***************************************************************************)
(* constants.ts                                                            *)
(***************************************************************************)
SCRAPE_INTERVAL_SECONDS == 300
DEFAULT_BIN_COUNT == 300

(***************************************************************************)
(* JavaScript values that reach the code at run time: a string, a number   *)
(* or undefined. One record shape for all three keeps them comparable.     *)
(***************************************************************************)
Undefined == [t |-> "undefined", s |-> <<>>, n |-> 0]
Str(bytes) == [t |-> "string", s |-> bytes, n |-> 0]
Num(k) == [t |-> "number", s |-> <<>>, n |-> k]

\* !v for the three kinds of value: undefined, "" and 0 are falsy
Falsy(v) ==
  \/ v.t = "undefined"
  \/ v.t = "string" /\ v.s = <<>>
  \/ v.t = "number" /\ v.n = 0

\* v ?? d
Coalesce(v, d) == IF v.t = "undefined" THEN d ELSE v.n

\* a parameter declared with a default: (v = d)
DefaultParam(v, d) == IF v.t = "undefined" THEN d ELSE v.n

\* code points String.prototype.trim removes (the ASCII ones)
IsWhitespace(c) == c \in {9, 10, 11, 12, 13, 32}

RECURSIVE TrimStart(_)
TrimStart(s) ==
  IF Len(s) > 0 /\ IsWhitespace(s[1]) THEN TrimStart(Tail(s)) ELSE s

RECURSIVE TrimEnd(_)
TrimEnd(s) ==
  IF Len(s) > 0 /\ IsWhitespace(s[Len(s)]) THEN TrimEnd(SubSeq(s, 1, Len(s) - 1)) ELSE s

Trim(s) == TrimEnd(TrimStart(s))

(***************************************************************************)
(* A call either returns a value or throws.                                *)
(***************************************************************************)
Return(v) == [ok |-> TRUE, v |-> v, err |-> ""]
Throw(msg) == [ok |-> FALSE, v |-> 0, err |-> msg]

(***************************************************************************)
(* SHA-256 (FIPS 180-4), what createHash('sha256').update(s).digest()      *)
(* computes, on 32-bit words held as <<high, low>> halves.                 *)
(***************************************************************************)
WordBase == 65536

RECURSIVE BitXor(_, _, _)
BitXor(a, b, k) ==
  IF k = 0 THEN 0 ELSE ((a + b) % 2) + 2 * BitXor(a \div 2, b \div 2, k - 1)

RECURSIVE BitAnd(_, _, _)
BitAnd(a, b, k) ==
  IF k = 0 THEN 0 ELSE ((a % 2) * (b % 2)) + 2 * BitAnd(a \div 2, b \div 2, k - 1)

Xor32(a, b) == <<BitXor(a[1], b[1], 16), BitXor(a[2], b[2], 16)>>
And32(a, b) == <<BitAnd(a[1], b[1], 16), BitAnd(a[2], b[2], 16)>>
Not32(a) == <<WordBase - 1 - a[1], WordBase - 1 - a[2]>>
Add32(a, b) ==
  LET lo == a[2] + b[2]
  IN <<(a[1] + b[1] + (lo \div WordBase)) % WordBase, lo % WordBase>>

RECURSIVE Rotr32(_, _)
Rotr32(w, n) ==
  IF n >= 16 THEN Rotr32(<<w[2], w[1]>>, n - 16)
  ELSE IF n = 0 THEN w
  ELSE <<(w[1] \div (2^n)) + (w[2] % (2^n)) * (2^(16 - n)),
         (w[2] \div (2^n)) + (w[1] % (2^n)) * (2^(16 - n))>>

Shr32(w, n) ==
  <<w[1] \div (2^n), (w[2] \div (2^n)) + (w[1] % (2^n)) * (2^(16 - n))>>

SHA256_K ==
  <<
    <<17034, 12184>>, <<28983, 17553>>, <<46528, 64463>>, <<59829, 56229>>,
    <<14678, 49755>>, <<23025, 4593>>, <<37439, 33444>>, <<43804, 24277>>,
    <<55303, 43672>>, <<4739, 23297>>, <<9265, 34238>>, <<21772, 32195>>,
    <<29374, 23924>>, <<32990, 45566>>, <<39900, 1703>>, <<49563, 61812>>,
    <<58523, 27073>>, <<61374, 18310>>, <<4033, 40390>>, <<9228, 41420>>,
    <<11753, 11375>>, <<19060, 33962>>, <<23728, 43484>>, <<30457, 35034>>,
    <<38974, 20818>>, <<43057, 50797>>, <<45059, 10184>>, <<48985, 32711>>,
    <<50912, 3059>>, <<54695, 37191>>, <<1738, 25425>>, <<5161, 10599>>,
    <<10167, 2693>>, <<11803, 8504>>, <<19756, 28156>>, <<21304, 3347>>,
    <<25866, 29524>>, <<30314, 2747>>, <<33218, 51502>>, <<37490, 11397>>,
    <<41663, 59553>>, <<43034, 26187>>, <<49739, 35696>>, <<51052, 20899>>,
    <<53650, 59417>>, <<54937, 1572>>, <<62478, 13701>>, <<4202, 41072>>,
    <<6564, 49430>>, <<7735, 27656>>, <<10056, 30540>>, <<13488, 48309>>,
    <<14620, 3251>>, <<20184, 43594>>, <<23452, 51791>>, <<26670, 28659>>,
    <<29839, 33518>>, <<30885, 25455>>, <<33992, 30740>>, <<36039, 520>>,
    <<37054, 65530>>, <<42064, 27883>>, <<48889, 41975>>, <<50801, 30962>> >>

SHA256_H0 ==
  <<
    <<27145, 58983>>, <<47975, 44677>>, <<15470, 62322>>, <<42319, 62778>>,
    <<20750, 21119>>, <<39685, 26764>>, <<8067, 55723>>, <<23520, 52505>> >>

SmallSigma0(w) == Xor32(Xor32(Rotr32(w, 7), Rotr32(w, 18)), Shr32(w, 3))
SmallSigma1(w) == Xor32(Xor32(Rotr32(w, 17), Rotr32(w, 19)), Shr32(w, 10))
BigSigma0(w) == Xor32(Xor32(Rotr32(w, 2), Rotr32(w, 13)), Rotr32(w, 22))
BigSigma1(w) == Xor32(Xor32(Rotr32(w, 6), Rotr32(w, 11)), Rotr32(w, 25))
Ch(e, f, g) == Xor32(And32(e, f), And32(Not32(e), g))
Maj(a, b, c) == Xor32(Xor32(And32(a, b), And32(a, c)), And32(b, c))

\* the message, a 1 bit, zeros up to 56 mod 64 bytes, the bit length on 8 bytes
Pad(m) ==
  LET bits == Len(m) * 8
      k == (55 - Len(m)) % 64
  IN m \o <<128>> \o [i \in 1..k |-> 0] \o <<0, 0, 0, 0>>
       \o <<(bits \div 16777216) % 256, (bits \div 65536) % 256,
            (bits \div 256) % 256, bits % 256>>

\* the i-th big-endian word of a 64-byte block
BlockWord(blk, i) ==
  <<blk[4 * i - 3] * 256 + blk[4 * i - 2], blk[4 * i - 1] * 256 + blk[4 * i]>>

RECURSIVE Schedule(_)
Schedule(w) ==
  IF Len(w) = 64 THEN w
  ELSE LET t == Len(w) + 1
       IN Schedule(Append(w,
            Add32(Add32(SmallSigma1(w[t - 2]), w[t - 7]),
                  Add32(SmallSigma0(w[t - 15]), w[t - 16]))))

RECURSIVE Rounds(_, _, _)
Rounds(s, w, t) ==
  IF Len(s) # 8 \/ t > 64 THEN s
  ELSE LET t1 == Add32(Add32(Add32(s[8], BigSigma1(s[5])),
                             Add32(Ch(s[5], s[6], s[7]), SHA256_K[t])), w[t])
           t2 == Add32(BigSigma0(s[1]), Maj(s[1], s[2], s[3]))
       IN Rounds(<<Add32(t1, t2), s[1], s[2], s[3], Add32(s[4], t1), s[5], s[6], s[7]>>,
                 w, t + 1)

Compress(h, blk) ==
  LET w == Schedule([i \in 1..16 |-> BlockWord(blk, i)])
      s == Rounds(h, w, 1)
  IN <<Add32(h[1], s[1]), Add32(h[2], s[2]), Add32(h[3], s[3]), Add32(h[4], s[4]),
       Add32(h[5], s[5]), Add32(h[6], s[6]), Add32(h[7], s[7]), Add32(h[8], s[8])>>

RECURSIVE Blocks(_, _)
Blocks(h, m) ==
  IF Len(m) = 0 THEN h
  ELSE Blocks(Compress(h, SubSeq(m, 1, 64)), SubSeq(m, 65, Len(m)))

Sha256(m) == Blocks(SHA256_H0, Pad(m))

(***************************************************************************)
(* hasher.ts                                                               *)
(***************************************************************************)
\* the strings of the model that get hashed: "a", "c", " a"
HashedStrings == {<<97>>, <<99>>, <<32, 97>>}

\* digests are computed once per string
Sha256Memo == {<<m, Sha256(m)>> : m \in HashedStrings}

\* generatePatients(10000) of the distribution test
TestPopulationSize == 10000

\* String(i) for i >= 0: the decimal digits
RECURSIVE Decimal(_)
Decimal(i) == IF i < 10 THEN <<48 + i>> ELSE Decimal(i \div 10) \o <<48 + (i % 10)>>

\* the number a string of decimal digits stands for
RECURSIVE ParseDecimal(_)
ParseDecimal(digits) ==
  IF Len(digits) = 0 THEN 0
  ELSE ParseDecimal(SubSeq(digits, 1, Len(digits) - 1)) * 10 + (digits[Len(digits)] - 48)

\* "patient-"
PatientPrefix == <<112, 97, 116, 105, 101, 110, 116, 45>>

\* `${prefix}-${i}` with the default prefix 'patient'
generatePatientId(i) == Str(PatientPrefix \o Decimal(i))

\* the first 32 bits of the SHA-256 digests of "patient-0" .. "patient-9999", in
\* this order, each as a <<high, low>> word; tabulated, since the identifiers
\* of the population are fixed and only these bits of a digest are read
PatientDigestWords ==
  <<
  <<34827, 17116>>, <<51994, 51118>>, <<38946, 50012>>, <<38721, 18842>>, <<29701, 22242>>, <<48005, 11204>>, <<17475, 31875>>, <<24247, 50789>>,
  <<64421, 4572>>, <<58765, 1911>>, <<11899, 7478>>, <<44483, 716>>, <<15669, 21529>>, <<27410, 3413>>, <<15521, 36130>>, <<11263, 64081>>,
  <<29155, 57594>>, <<14720, 1328>>, <<28551, 7537>>, <<32071, 61142>>, <<59155, 60334>>, <<18119, 48805>>, <<21317, 30015>>, <<37178, 51654>>,
  <<55530, 20099>>, <<12024, 63267>>, <<31645, 37151>>, <<64762, 9565>>, <<18120, 44712>>, <<10622, 8829>>, <<44570, 60457>>, <<14207, 38532>>,
  <<63075, 52928>>, <<33040, 22533>>, <<51004, 64821>>, <<2160, 61706>>, <<9699, 14055>>, <<22281, 64485>>, <<63863, 28839>>, <<22200, 54173>>,
  <<15411, 17312>>, <<58750, 18288>>, <<32411, 19599>>, <<32920, 62400>>, <<29642, 41785>>, <<24072, 22142>>, <<46283, 60867>>, <<12287, 27618>>,
  <<31195, 36387>>, <<49787, 28493>>, <<64650, 44327>>, <<18167, 44887>>, <<14477, 28165>>, <<26821, 53105>>, <<52491, 18878>>, <<4175, 17839>>,
  <<40180, 16965>>, <<47710, 3798>>, <<12629, 63248>>, <<24029, 17398>>, <<16651, 49218>>, <<46745, 36924>>, <<51430, 59388>>, <<46208, 47740>>,
  <<12328, 17082>>, <<53071, 60921>>, <<56598, 46672>>, <<44593, 21294>>, <<49576, 25129>>, <<9472, 1039>>, <<14251, 44024>>, <<57424, 5487>>,
  <<57802, 56356>>, <<54624, 63373>>, <<40467, 64619>>, <<54881, 21561>>, <<59392, 24731>>, <<65054, 31089>>, <<43930, 20957>>, <<11189, 26261>>,
  <<6298, 65242>>, <<7001, 52101>>, <<51858, 5091>>, <<9406, 28813>>, <<36197, 2444>>, <<41870, 26915>>, <<27556, 56706>>, <<9112, 34087>>,
  <<20540, 13394>>, <<51935, 38404>>, <<62774, 54686>>, <<18781, 13918>>, <<22519, 42097>>, <<13348, 61915>>, <<57636, 49383>>, <<29753, 57209>>,
  <<8441, 31533>>, <<43938, 45653>>, <<19904, 16292>>, <<26884, 20025>>, <<55, 9282>>, <<60179, 3623>>, <<62434, 9274>>, <<7645, 23996>>,
  <<14438, 46601>>, <<29405, 13676>>, <<12713, 6656>>, <<41397, 14111>>, <<64865, 17004>>, <<17269, 4781>>, <<3995, 4964>>, <<20083, 60614>>,
  <<5282, 54953>>, <<58976, 39844>>, <<28082, 40064>>, <<33849, 21372>>, <<40484, 15613>>, <<8080, 19634>>, <<19388, 19573>>, <<16994, 33438>>,
  <<22464, 29157>>, <<2248, 12988>>, <<41455, 3406>>, <<6533, 17665>>, <<55043, 14751>>, <<4738, 6969>>, <<45558, 23207>>, <<22829, 550>>,
  <<10268, 64598>>, <<51353, 63893>>, <<65022, 1691>>, <<31156, 42995>>, <<49670, 26614>>, <<604, 59954>>, <<55771, 28149>>, <<10285, 33145>>,
  <<28090, 17635>>, <<57995, 33997>>, <<51247, 7583>>, <<43158, 1534>>, <<19012, 17854>>, <<27454, 10877>>, <<37912, 54308>>, <<5316, 29182>>,
  <<52931, 60947>>, <<42073, 13051>>, <<39871, 53921>>, <<24917, 61882>>, <<17929, 8769>>, <<18850, 24401>>, <<43556, 60365>>, <<57742, 36252>>,
  <<27986, 20181>>, <<50522, 46572>>, <<10012, 4129>>, <<30542, 20416>>, <<5636, 32448>>, <<59330, 6079>>, <<11874, 23233>>, <<24839, 13907>>,
  <<32569, 19374>>, <<36830, 52199>>, <<39833, 38292>>, <<24363, 42189>>, <<23061, 34316>>, <<34694, 18352>>, <<45068, 17114>>, <<10186, 12122>>,
  <<48308, 12430>>, <<42044, 36650>>, <<14582, 15901>>, <<9889, 18084>>, <<11264, 58497>>, <<64150, 24618>>, <<3271, 2484>>, <<3339, 48294>>,
  <<4929, 19792>>, <<20130, 36636>>, <<32711, 46044>>, <<32384, 14452>>, <<60590, 61619>>, <<48069, 38057>>, <<2244, 30913>>, <<16370, 31633>>,
  <<4346, 32182>>, <<764, 16021>>, <<3696, 20180>>, <<16097, 51646>>, <<46159, 38565>>, <<43587, 28543>>, <<44196, 58106>>, <<48261, 25677>>,
  <<51252, 26662>>, <<45791, 8278>>, <<51246, 40461>>, <<44177, 18004>>, <<57640, 57683>>, <<64347, 19552>>, <<42203, 30936>>, <<64478, 43792>>,
  <<53655, 7799>>, <<29330, 9374>>, <<20624, 2957>>, <<44475, 45650>>, <<36800, 61579>>, <<57543, 47189>>, <<63504, 57648>>, <<1106, 12420>>,
  <<13372, 40535>>, <<20312, 8075>>, <<50074, 40547>>, <<42266, 57169>>, <<7616, 47782>>, <<15483, 52081>>, <<26110, 56472>>, <<16954, 42733>>,
  <<34981, 21451>>, <<40872, 31681>>, <<41709, 14469>>, <<28049, 543>>, <<23182, 49003>>, <<35308, 31312>>, <<41786, 65314>>, <<31229, 807>>,
  <<43760, 60403>>, <<13025, 2487>>, <<11121, 54912>>, <<42879, 60318>>, <<64534, 51923>>, <<3855, 62456>>, <<43836, 4527>>, <<33225, 2001>>,
  <<1561, 38598>>, <<43874, 545>>, <<42239, 24725>>, <<59238, 45327>>, <<61065, 57522>>, <<65494, 63932>>, <<64669, 28901>>, <<16038, 9969>>,
  <<41788, 13113>>, <<38014, 45863>>, <<33872, 53558>>, <<15296, 22607>>, <<34209, 31538>>, <<50500, 55607>>, <<10483, 46619>>, <<41525, 63049>>,
  <<52457, 3289>>, <<21946, 18703>>, <<37110, 4187>>, <<54305, 16200>>, <<43863, 17499>>, <<29077, 63547>>, <<47343, 29284>>, <<13922, 46025>>,
  <<43761, 35955>>, <<49472, 18955>>, <<36612, 58547>>, <<15911, 5809>>, <<3250, 39>>, <<37932, 34188>>, <<37980, 50516>>, <<21296, 28254>>,
  <<13197, 20296>>, <<20556, 58865>>, <<62732, 39156>>, <<19251, 1425>>, <<23022, 30362>>, <<27967, 57873>>, <<19877, 30213>>, <<30753, 16854>>,
  <<51864, 25378>>, <<63475, 20504>>, <<35110, 39667>>, <<37466, 29001>>, <<60704, 47779>>, <<53313, 12131>>, <<35708, 19850>>, <<11089, 33914>>,
  <<25691, 59027>>, <<13886, 59169>>, <<17322, 865>>, <<19653, 21231>>, <<62510, 25061>>, <<51605, 47270>>, <<21516, 15635>>, <<21321, 37221>>,
  <<56529, 22897>>, <<10875, 18106>>, <<1750, 45992>>, <<31349, 9643>>, <<33553, 17340>>, <<7880, 9401>>, <<33484, 325>>, <<32827, 55472>>,
  <<13925, 20218>>, <<43258, 24392>>, <<63257, 58764>>, <<28106, 61666>>, <<47390, 21491>>, <<60658, 42524>>, <<44861, 48944>>, <<64257, 30009>>,
  <<35773, 26566>>, <<4445, 58373>>, <<24121, 33337>>, <<54419, 46865>>, <<21870, 22698>>, <<11312, 16348>>, <<25301, 52716>>, <<45476, 46700>>,
  <<9412, 46884>>, <<22731, 60811>>, <<32230, 54546>>, <<61082, 6670>>, <<44924, 59138>>, <<38404, 4778>>, <<62560, 28432>>, <<24052, 54040>>,
  <<36906, 35350>>, <<38029, 15123>>, <<38214, 60916>>, <<9614, 37071>>, <<47258, 29814>>, <<30642, 21278>>, <<13468, 34982>>, <<62639, 39883>>,
  <<40600, 39524>>, <<17607, 49363>>, <<63038, 43981>>, <<15080, 14242>>, <<43133, 48214>>, <<3957, 1431>>, <<55263, 57799>>, <<24379, 27381>>,
  <<29490, 49884>>, <<6162, 14069>>, <<44670, 17732>>, <<12078, 59347>>, <<54794, 2144>>, <<36847, 17030>>, <<50203, 62002>>, <<53598, 36780>>,
  <<50014, 7166>>, <<61653, 19965>>, <<1174, 41597>>, <<57082, 2718>>, <<63433, 32871>>, <<48816, 46960>>, <<45652, 33848>>, <<38678, 26216>>,
  <<32246, 48339>>, <<65090, 51248>>, <<52507, 24683>>, <<26105, 42603>>, <<14677, 17582>>, <<5889, 2247>>, <<12264, 45307>>, <<64511, 39056>>,
  <<23061, 14681>>, <<5432, 35599>>, <<31819, 1440>>, <<31312, 38377>>, <<24439, 21579>>, <<27711, 50634>>, <<30841, 32647>>, <<15058, 64165>>,
  <<39851, 60409>>, <<23771, 45807>>, <<873, 59275>>, <<28883, 24766>>, <<62316, 17264>>, <<24105, 56991>>, <<60454, 62068>>, <<45600, 52853>>,
  <<48882, 57355>>, <<33236, 41667>>, <<3435, 47398>>, <<23915, 3546>>, <<2004, 40478>>, <<63781, 2946>>, <<28805, 43624>>, <<41433, 60505>>,
  <<12584, 33198>>, <<24151, 33759>>, <<58854, 22092>>, <<32770, 23076>>, <<4118, 45031>>, <<6852, 49274>>, <<49342, 63018>>, <<39083, 11910>>,
  <<45188, 63090>>, <<32329, 51670>>, <<4556, 36939>>, <<14744, 7996>>, <<29674, 51875>>, <<36736, 61087>>, <<56906, 49790>>, <<4510, 52384>>,
  <<45778, 39446>>, <<4343, 64279>>, <<45870, 16230>>, <<14455, 40255>>, <<38326, 26079>>, <<29824, 4299>>, <<29144, 7707>>, <<36163, 3355>>,
  <<64251, 60759>>, <<50377, 13301>>, <<51844, 6354>>, <<62153, 25973>>, <<18616, 34542>>, <<27499, 29509>>, <<15283, 49253>>, <<59228, 38096>>,
  <<980, 4984>>, <<43750, 37049>>, <<2553, 41891>>, <<54009, 40709>>, <<19748, 46320>>, <<4877, 57797>>, <<609, 28095>>, <<31023, 37806>>,
  <<7953, 16409>>, <<44982, 11888>>, <<50488, 45144>>, <<27155, 7345>>, <<27439, 48967>>, <<39420, 62773>>, <<37877, 24555>>, <<60416, 55139>>,
  <<48146, 4681>>, <<54893, 42332>>, <<22052, 51932>>, <<15373, 1006>>, <<3805, 48413>>, <<64852, 5092>>, <<64400, 35464>>, <<760, 40361>>,
  <<55038, 50276>>, <<64169, 58063>>, <<62887, 6673>>, <<39812, 33223>>, <<52068, 50141>>, <<10580, 59552>>, <<26756, 34427>>, <<17698, 46704>>,
  <<1063, 46122>>, <<3142, 6185>>, <<18166, 24283>>, <<63814, 62277>>, <<21752, 9730>>, <<25046, 14859>>, <<25960, 5317>>, <<47242, 34458>>,
  <<4944, 48909>>, <<39521, 19312>>, <<8243, 26260>>, <<21659, 50075>>, <<43718, 35184>>, <<41381, 46917>>, <<2128, 22105>>, <<56513, 2442>>,
  <<9847, 56218>>, <<40343, 13093>>, <<60454, 19964>>, <<13735, 60728>>, <<9692, 8046>>, <<18372, 37844>>, <<25905, 47734>>, <<14465, 62440>>,
  <<17340, 52323>>, <<32002, 59917>>, <<61767, 28452>>, <<40399, 4567>>, <<7789, 47565>>, <<57957, 61884>>, <<3104, 42498>>, <<59557, 12614>>,
  <<29546, 36829>>, <<20932, 52315>>, <<16949, 30613>>, <<26164, 19893>>, <<7029, 54180>>, <<56601, 63730>>, <<24412, 13583>>, <<52585, 8699>>,
  <<52908, 54790>>, <<5545, 37393>>, <<5148, 15054>>, <<45242, 17524>>, <<32944, 2476>>, <<24935, 37105>>, <<26489, 36837>>, <<8666, 14633>>,
  <<35439, 23706>>, <<7243, 39474>>, <<55324, 54401>>, <<36063, 17006>>, <<27060, 25439>>, <<65518, 8173>>, <<37279, 59568>>, <<56650, 50536>>,
  <<64176, 55147>>, <<29992, 45223>>, <<37925, 24139>>, <<52903, 45571>>, <<62581, 12395>>, <<43560, 40039>>, <<59802, 32853>>, <<49293, 9504>>,
  <<46656, 46659>>, <<48131, 43059>>, <<28311, 51400>>, <<62472, 54586>>, <<58506, 16775>>, <<36854, 16017>>, <<46135, 14507>>, <<18365, 51907>>,
  <<32335, 12554>>, <<44108, 37843>>, <<28860, 42077>>, <<58249, 34879>>, <<15136, 49143>>, <<35028, 50888>>, <<60893, 27666>>, <<20189, 30460>>,
  <<334, 65078>>, <<35046, 21150>>, <<60116, 51873>>, <<52679, 25898>>, <<61351, 13340>>, <<18221, 50942>>, <<45547, 30290>>, <<44731, 37754>>,
  <<15990, 58030>>, <<44321, 29727>>, <<42082, 45483>>, <<56611, 3335>>, <<53510, 12970>>, <<23231, 12429>>, <<12920, 46335>>, <<64610, 36459>>,
  <<61535, 14100>>, <<30574, 14307>>, <<26268, 29359>>, <<37897, 13777>>, <<13789, 32519>>, <<10198, 56592>>, <<27404, 9465>>, <<54821, 51120>>,
  <<9085, 35111>>, <<848, 35728>>, <<32657, 29063>>, <<28732, 56803>>, <<333, 27731>>, <<17865, 36551>>, <<42431, 54208>>, <<8047, 52842>>,
  <<25158, 55953>>, <<38243, 5767>>, <<15301, 61535>>, <<33388, 7784>>, <<32522, 1470>>, <<64898, 13791>>, <<39197, 55808>>, <<26056, 21816>>,
  <<660, 24976>>, <<14947, 58645>>, <<33741, 4744>>, <<33939, 36026>>, <<40391, 23848>>, <<15981, 36914>>, <<29799, 49035>>, <<46440, 368>>,
  <<62568, 21801>>, <<31965, 23227>>, <<22015, 15676>>, <<53868, 20005>>, <<40347, 7906>>, <<15138, 4386>>, <<2625, 14472>>, <<60951, 17162>>,
  <<8992, 50242>>, <<50872, 64599>>, <<34286, 42541>>, <<51667, 2458>>, <<44271, 1360>>, <<62874, 3735>>, <<59172, 6706>>, <<41235, 18015>>,
  <<35539, 57242>>, <<9962, 61640>>, <<41417, 8125>>, <<32114, 34612>>, <<32753, 27052>>, <<44567, 61359>>, <<58467, 52648>>, <<32136, 30756>>,
  <<30615, 27143>>, <<44750, 46758>>, <<36265, 38281>>, <<44507, 51452>>, <<25403, 39625>>, <<60253, 63659>>, <<12731, 11069>>, <<21295, 39212>>,
  <<52202, 39107>>, <<56572, 54763>>, <<16550, 3413>>, <<53771, 30395>>, <<1017, 42787>>, <<29409, 12295>>, <<60443, 28253>>, <<29762, 11321>>,
  <<59568, 61273>>, <<47496, 18243>>, <<17975, 6087>>, <<39539, 54776>>, <<62651, 28501>>, <<30146, 58424>>, <<34119, 25606>>, <<62769, 59802>>,
  <<18318, 34582>>, <<63476, 51617>>, <<60731, 61005>>, <<29549, 54882>>, <<19259, 65414>>, <<46068, 13592>>, <<22222, 4667>>, <<38665, 44438>>,
  <<48791, 31093>>, <<55110, 27501>>, <<52309, 61636>>, <<16841, 64506>>, <<28176, 42969>>, <<41250, 9379>>, <<57948, 19401>>, <<13470, 5717>>,
  <<14217, 1174>>, <<1205, 9231>>, <<47612, 19756>>, <<43096, 22790>>, <<14715, 4610>>, <<35103, 35381>>, <<3744, 8976>>, <<52719, 11320>>,
  <<29013, 19219>>, <<14156, 28156>>, <<21269, 2989>>, <<35808, 30734>>, <<15930, 10191>>, <<53014, 58939>>, <<58240, 49844>>, <<62777, 22462>>,
  <<59543, 51186>>, <<19593, 44879>>, <<38504, 7069>>, <<53530, 7083>>, <<48962, 60396>>, <<51809, 14036>>, <<15418, 34603>>, <<11128, 2656>>,
  <<12392, 6388>>, <<11882, 17904>>, <<62847, 6297>>, <<31723, 32631>>, <<2750, 5241>>, <<49551, 23554>>, <<63164, 6474>>, <<23746, 54173>>,
  <<57504, 16484>>, <<7869, 19918>>, <<1982, 60937>>, <<32364, 1486>>, <<58550, 49395>>, <<57970, 55337>>, <<20418, 40801>>, <<24474, 14652>>,
  <<17261, 321>>, <<38580, 2354>>, <<62804, 3691>>, <<27098, 39098>>, <<39690, 52301>>, <<60321, 34319>>, <<50005, 61893>>, <<42850, 13702>>,
  <<12131, 44595>>, <<12539, 13521>>, <<61762, 1843>>, <<40866, 25934>>, <<5885, 24079>>, <<37992, 51511>>, <<20527, 12972>>, <<41702, 32253>>,
  <<46736, 5833>>, <<526, 15015>>, <<21753, 43898>>, <<22282, 5101>>, <<9777, 21785>>, <<29054, 53833>>, <<29921, 7816>>, <<25768, 15032>>,
  <<32708, 47075>>, <<20418, 43524>>, <<23642, 57847>>, <<45714, 23144>>, <<52891, 35853>>, <<25033, 47138>>, <<26483, 24440>>, <<44855, 3709>>,
  <<65455, 50440>>, <<53323, 29616>>, <<53094, 15481>>, <<38133, 17342>>, <<40355, 38517>>, <<55367, 15060>>, <<11137, 20119>>, <<37444, 33137>>,
  <<44632, 37356>>, <<56850, 27657>>, <<46860, 65479>>, <<37999, 29336>>, <<20195, 2826>>, <<30700, 45124>>, <<46570, 60138>>, <<46605, 36972>>,
  <<27435, 5865>>, <<30520, 65429>>, <<56874, 57754>>, <<33579, 39330>>, <<64698, 8213>>, <<38365, 26100>>, <<35380, 16680>>, <<60887, 22698>>,
  <<47416, 23254>>, <<28726, 10357>>, <<39360, 15540>>, <<702, 454>>, <<17136, 1349>>, <<13621, 61977>>, <<54503, 7340>>, <<51186, 31753>>,
  <<3567, 12684>>, <<14244, 40784>>, <<52940, 53013>>, <<59236, 38961>>, <<52739, 36753>>, <<34951, 38004>>, <<5035, 60870>>, <<26029, 57397>>,
  <<35698, 7563>>, <<10049, 50274>>, <<34842, 56691>>, <<64262, 17633>>, <<50744, 112>>, <<43306, 448>>, <<3711, 24995>>, <<9594, 20076>>,
  <<6548, 4179>>, <<2107, 17778>>, <<25852, 62868>>, <<26149, 40013>>, <<20320, 27842>>, <<48318, 63727>>, <<1704, 42798>>, <<33232, 38513>>,
  <<37966, 30983>>, <<61884, 8191>>, <<53829, 60891>>, <<12272, 18414>>, <<65220, 20067>>, <<53351, 27823>>, <<19748, 7148>>, <<31851, 57691>>,
  <<18603, 1271>>, <<40403, 44309>>, <<38747, 37248>>, <<53106, 37662>>, <<3347, 3284>>, <<47634, 17279>>, <<53389, 60660>>, <<38265, 22648>>,
  <<55389, 33070>>, <<17418, 42556>>, <<32464, 1372>>, <<37682, 9816>>, <<47771, 45759>>, <<37141, 17707>>, <<40400, 17605>>, <<48639, 18624>>,
  <<21823, 6293>>, <<33360, 46415>>, <<51510, 14290>>, <<27788, 2135>>, <<49317, 18959>>, <<9062, 64018>>, <<43372, 28740>>, <<26974, 45997>>,
  <<413, 17521>>, <<13302, 50501>>, <<46317, 41552>>, <<25900, 53173>>, <<41352, 40634>>, <<27349, 45682>>, <<30816, 6127>>, <<1742, 59212>>,
  <<11594, 63053>>, <<7607, 60517>>, <<702, 33290>>, <<65322, 55113>>, <<158, 56907>>, <<26751, 46482>>, <<42020, 8432>>, <<9835, 59405>>,
  <<7357, 45461>>, <<7489, 56490>>, <<11517, 50921>>, <<47176, 61131>>, <<56849, 31647>>, <<14026, 54732>>, <<36727, 28874>>, <<47476, 6746>>,
  <<28339, 41959>>, <<54739, 60400>>, <<18033, 20963>>, <<23500, 58366>>, <<26822, 15300>>, <<46688, 36236>>, <<62324, 32318>>, <<18425, 46794>>,
  <<20376, 12852>>, <<6105, 44959>>, <<46821, 38079>>, <<52857, 9367>>, <<50247, 12584>>, <<2141, 37738>>, <<6269, 9450>>, <<38901, 3468>>,
  <<46421, 47926>>, <<44527, 12039>>, <<23550, 58206>>, <<20107, 34056>>, <<19468, 11209>>, <<3770, 46044>>, <<52909, 36829>>, <<52931, 59382>>,
  <<9855, 24260>>, <<14712, 28909>>, <<37790, 29037>>, <<11630, 17924>>, <<11204, 34691>>, <<47052, 30439>>, <<26263, 38412>>, <<47483, 14853>>,
  <<64628, 23698>>, <<21277, 48599>>, <<34656, 38901>>, <<57289, 17480>>, <<16679, 46332>>, <<48451, 60840>>, <<659, 37583>>, <<28701, 63483>>,
  <<7009, 15666>>, <<13272, 22690>>, <<36435, 7103>>, <<29575, 53041>>, <<40810, 63763>>, <<50200, 55286>>, <<48172, 60672>>, <<44019, 1132>>,
  <<29972, 37458>>, <<38632, 50893>>, <<31584, 49103>>, <<57091, 55130>>, <<640, 13912>>, <<62901, 35971>>, <<64026, 2404>>, <<14091, 61831>>,
  <<64363, 10172>>, <<60309, 64388>>, <<40040, 38336>>, <<48803, 8618>>, <<39866, 12992>>, <<55646, 49272>>, <<9820, 31157>>, <<54758, 61848>>,
  <<47255, 26244>>, <<55747, 41190>>, <<17675, 14548>>, <<9599, 22754>>, <<52979, 51011>>, <<17003, 25184>>, <<50311, 47990>>, <<11883, 40934>>,
  <<14639, 65036>>, <<13544, 38036>>, <<38279, 52760>>, <<43024, 10330>>, <<28097, 11567>>, <<28711, 39557>>, <<607, 59252>>, <<25381, 53926>>,
  <<8493, 39578>>, <<9553, 14146>>, <<19736, 18699>>, <<55436, 22746>>, <<16001, 1788>>, <<43075, 50212>>, <<46930, 33273>>, <<35730, 64821>>,
  <<32632, 52323>>, <<21163, 3725>>, <<4857, 29984>>, <<25153, 56295>>, <<1751, 6533>>, <<37090, 45540>>, <<24913, 15772>>, <<58558, 52278>>,
  <<26776, 34825>>, <<18472, 36929>>, <<347, 7647>>, <<13290, 42366>>, <<29771, 5508>>, <<64754, 58689>>, <<45005, 41906>>, <<2490, 9850>>,
  <<63206, 5033>>, <<64197, 14225>>, <<26161, 4884>>, <<35266, 43987>>, <<16413, 6742>>, <<21187, 13260>>, <<63694, 12293>>, <<52489, 34813>>,
  <<55662, 41874>>, <<27935, 26844>>, <<21587, 31265>>, <<43724, 32180>>, <<32806, 47912>>, <<5209, 33199>>, <<6310, 9504>>, <<33211, 17714>>,
  <<57731, 38952>>, <<3863, 47758>>, <<8857, 51528>>, <<884, 3581>>, <<33558, 22380>>, <<2251, 50283>>, <<49567, 61953>>, <<29509, 63596>>,
  <<4884, 17259>>, <<4686, 39995>>, <<28536, 541>>, <<16029, 22540>>, <<57472, 31958>>, <<59881, 9804>>, <<23008, 24125>>, <<43250, 11424>>,
  <<31571, 23827>>, <<1222, 62180>>, <<5183, 48573>>, <<28035, 4841>>, <<21343, 43366>>, <<56002, 31942>>, <<48377, 48436>>, <<13319, 61565>>,
  <<50342, 11852>>, <<941, 36773>>, <<18426, 62806>>, <<1710, 13413>>, <<23476, 40500>>, <<14761, 7607>>, <<26949, 56424>>, <<34197, 2461>>,
  <<5023, 63261>>, <<18452, 5606>>, <<47203, 43161>>, <<12337, 8979>>, <<14163, 35918>>, <<52533, 8941>>, <<19155, 1761>>, <<6339, 1801>>,
  <<13062, 15124>>, <<7262, 1026>>, <<35648, 54252>>, <<395, 37360>>, <<52661, 18605>>, <<18074, 11238>>, <<56617, 62037>>, <<56228, 63633>>,
  <<18840, 25183>>, <<6873, 29872>>, <<64193, 43264>>, <<63009, 11289>>, <<49040, 12135>>, <<52802, 38057>>, <<19000, 54146>>, <<3113, 48563>>,
  <<53471, 64913>>, <<13800, 50598>>, <<31900, 17361>>, <<1152, 17085>>, <<47402, 24657>>, <<62551, 4087>>, <<19358, 9427>>, <<7790, 5040>>,
  <<60, 18537>>, <<29682, 5291>>, <<31279, 57794>>, <<62150, 26033>>, <<19963, 8787>>, <<35738, 30587>>, <<52536, 19629>>, <<53292, 63751>>,
  <<38364, 28231>>, <<30897, 26572>>, <<3588, 12769>>, <<65512, 35840>>, <<50865, 15643>>, <<43593, 32716>>, <<58579, 57749>>, <<57885, 51667>>,
  <<58665, 30820>>, <<23967, 32765>>, <<16057, 14572>>, <<20310, 5328>>, <<11888, 61486>>, <<15622, 49871>>, <<51445, 10186>>, <<47403, 9040>>,
  <<38958, 32048>>, <<59123, 39157>>, <<32991, 55035>>, <<10003, 7148>>, <<15822, 41941>>, <<58681, 30209>>, <<32115, 42496>>, <<14557, 28914>>,
  <<11192, 48337>>, <<46458, 46657>>, <<57838, 63434>>, <<4540, 5878>>, <<55131, 45247>>, <<62948, 65231>>, <<46357, 60217>>, <<22466, 35416>>,
  <<12276, 38536>>, <<64915, 52398>>, <<34798, 37291>>, <<54464, 44808>>, <<11923, 17253>>, <<37972, 50528>>, <<22479, 43897>>, <<44795, 29621>>,
  <<1067, 108>>, <<64658, 54254>>, <<45424, 63653>>, <<28247, 26662>>, <<65384, 36327>>, <<35745, 22815>>, <<56732, 60647>>, <<47780, 45473>>,
  <<14531, 22339>>, <<3482, 40714>>, <<10405, 10567>>, <<13078, 29510>>, <<40549, 36386>>, <<64513, 54552>>, <<2964, 38651>>, <<57045, 64763>>,
  <<64785, 46807>>, <<65471, 21864>>, <<43026, 48397>>, <<63597, 7666>>, <<22138, 64801>>, <<9519, 12717>>, <<21610, 3810>>, <<44, 3546>>,
  <<43033, 16822>>, <<40623, 55161>>, <<31958, 33714>>, <<43022, 63762>>, <<30637, 38576>>, <<12512, 9741>>, <<2910, 12376>>, <<4144, 26714>>,
  <<52458, 11105>>, <<14094, 42234>>, <<54269, 3163>>, <<32220, 10093>>, <<52024, 44641>>, <<46911, 12612>>, <<65148, 53721>>, <<33202, 11984>>,
  <<57502, 17155>>, <<17962, 26402>>, <<30131, 58735>>, <<6488, 19491>>, <<6188, 57911>>, <<32623, 44906>>, <<7170, 30462>>, <<5538, 10876>>,
  <<48624, 32755>>, <<10051, 7669>>, <<22770, 25290>>, <<38605, 662>>, <<30511, 18764>>, <<28131, 13350>>, <<51719, 65054>>, <<10494, 46012>>,
  <<26303, 57153>>, <<37146, 39071>>, <<3318, 9845>>, <<42071, 3849>>, <<61482, 62493>>, <<55825, 41980>>, <<7344, 41690>>, <<43813, 32185>>,
  <<4305, 11733>>, <<2483, 44041>>, <<52045, 27764>>, <<46652, 27393>>, <<53201, 56389>>, <<13691, 62100>>, <<30493, 60210>>, <<4561, 34855>>,
  <<33450, 8743>>, <<27520, 9998>>, <<6740, 34186>>, <<46404, 14518>>, <<49158, 61381>>, <<49509, 11622>>, <<15729, 34987>>, <<19076, 678>>,
  <<25518, 10687>>, <<46764, 33309>>, <<4545, 62637>>, <<30402, 35715>>, <<1863, 4518>>, <<7866, 13343>>, <<44975, 48921>>, <<15210, 42636>>,
  <<24044, 20971>>, <<25201, 49172>>, <<1753, 29626>>, <<17595, 56077>>, <<38945, 26494>>, <<60576, 53102>>, <<34241, 33862>>, <<8879, 49789>>,
  <<64188, 41401>>, <<36363, 34893>>, <<8447, 22752>>, <<56774, 23241>>, <<1337, 29540>>, <<39713, 48175>>, <<57457, 56594>>, <<35988, 8607>>,
  <<40903, 27023>>, <<2244, 16838>>, <<36388, 38433>>, <<3592, 33410>>, <<60481, 28565>>, <<64353, 11318>>, <<16001, 20852>>, <<50241, 18476>>,
  <<37028, 3344>>, <<27200, 35090>>, <<2725, 48646>>, <<30419, 43111>>, <<49440, 62993>>, <<9472, 18004>>, <<34972, 36097>>, <<47115, 35336>>,
  <<1818, 15763>>, <<6577, 47146>>, <<39204, 3323>>, <<1, 26833>>, <<15247, 10983>>, <<27804, 59358>>, <<39114, 2908>>, <<37532, 36230>>,
  <<53144, 33725>>, <<12849, 25505>>, <<24701, 48951>>, <<12808, 52580>>, <<12852, 726>>, <<13435, 57241>>, <<63527, 26265>>, <<58204, 35883>>,
  <<6347, 27638>>, <<28619, 47353>>, <<58428, 20774>>, <<24058, 22820>>, <<5191, 28847>>, <<30436, 56166>>, <<62451, 61511>>, <<21042, 7980>>,
  <<3217, 39999>>, <<18216, 23848>>, <<24429, 64061>>, <<1153, 34749>>, <<25899, 1074>>, <<61158, 29956>>, <<24368, 62382>>, <<28636, 15967>>,
  <<18474, 41571>>, <<51550, 44539>>, <<18980, 17967>>, <<29607, 29617>>, <<4594, 13289>>, <<42770, 36650>>, <<51866, 17>>, <<10165, 42691>>,
  <<14520, 55986>>, <<22871, 62875>>, <<14305, 32740>>, <<42930, 53361>>, <<35449, 20011>>, <<1495, 35786>>, <<47485, 26176>>, <<22513, 41077>>,
  <<51798, 6743>>, <<4666, 38012>>, <<39097, 20220>>, <<38753, 50551>>, <<19720, 30190>>, <<25451, 53548>>, <<2158, 8791>>, <<27146, 41707>>,
  <<56857, 25419>>, <<19463, 44856>>, <<17951, 48668>>, <<63632, 39357>>, <<31885, 30166>>, <<12266, 34983>>, <<38261, 39914>>, <<20732, 47787>>,
  <<34931, 33026>>, <<18619, 17214>>, <<56432, 21628>>, <<23364, 43616>>, <<41079, 10272>>, <<32271, 63442>>, <<37878, 62443>>, <<62838, 17007>>,
  <<3334, 1372>>, <<31782, 61474>>, <<40335, 36888>>, <<28850, 10183>>, <<9895, 64496>>, <<39295, 20541>>, <<46306, 18843>>, <<34260, 62325>>,
  <<21855, 11733>>, <<53628, 64432>>, <<54957, 47551>>, <<61818, 22657>>, <<47954, 8851>>, <<52926, 31246>>, <<25169, 9499>>, <<6113, 64287>>,
  <<62978, 52542>>, <<46423, 26627>>, <<64750, 36757>>, <<40699, 15249>>, <<62430, 46445>>, <<26826, 36250>>, <<45497, 36789>>, <<22851, 40893>>,
  <<9831, 45639>>, <<52382, 58614>>, <<34849, 60769>>, <<56593, 48784>>, <<35751, 48195>>, <<32328, 24338>>, <<37361, 61062>>, <<58683, 7425>>,
  <<51843, 30472>>, <<49858, 46414>>, <<42080, 9651>>, <<20788, 47509>>, <<6594, 60651>>, <<13298, 44632>>, <<26310, 33806>>, <<20480, 42512>>,
  <<35280, 63281>>, <<34004, 29639>>, <<49425, 22277>>, <<28647, 31139>>, <<16440, 54820>>, <<13558, 29618>>, <<8883, 32155>>, <<40212, 57394>>,
  <<15832, 38049>>, <<22534, 50186>>, <<57843, 279>>, <<12012, 1827>>, <<37387, 19202>>, <<4317, 65421>>, <<42850, 15833>>, <<20661, 40865>>,
  <<45748, 18812>>, <<28797, 5024>>, <<40097, 27659>>, <<2011, 24161>>, <<34321, 62208>>, <<41557, 1642>>, <<63933, 32822>>, <<26757, 43202>>,
  <<31830, 3456>>, <<17486, 22791>>, <<5507, 62637>>, <<54579, 15926>>, <<18489, 15483>>, <<31603, 9656>>, <<53985, 18555>>, <<16020, 29227>>,
  <<11358, 7491>>, <<36289, 46959>>, <<33502, 8660>>, <<1608, 35228>>, <<50059, 44663>>, <<22901, 36749>>, <<22204, 45583>>, <<42978, 39388>>,
  <<26346, 41089>>, <<895, 60926>>, <<32496, 59836>>, <<45499, 39347>>, <<61418, 50520>>, <<56275, 10149>>, <<29486, 22504>>, <<9086, 17893>>,
  <<3332, 50738>>, <<16934, 55681>>, <<21001, 44025>>, <<9615, 28915>>, <<26118, 49824>>, <<12651, 27889>>, <<32036, 29862>>, <<30129, 12201>>,
  <<63604, 44840>>, <<15469, 33005>>, <<7722, 54202>>, <<64534, 61047>>, <<2199, 10536>>, <<25245, 6514>>, <<50120, 28395>>, <<22473, 21446>>,
  <<51198, 28503>>, <<63470, 11154>>, <<41444, 43749>>, <<37270, 48431>>, <<9106, 12643>>, <<24386, 38526>>, <<85, 61691>>, <<6716, 34603>>,
  <<59012, 21577>>, <<3242, 53345>>, <<5828, 55525>>, <<43159, 43480>>, <<11957, 50716>>, <<64525, 44596>>, <<16084, 61054>>, <<15362, 44221>>,
  <<6603, 14089>>, <<4414, 42236>>, <<2595, 39342>>, <<12905, 15056>>, <<45432, 22469>>, <<19686, 59119>>, <<50661, 32550>>, <<51701, 57390>>,
  <<52187, 58433>>, <<26568, 56847>>, <<19183, 58709>>, <<59703, 31673>>, <<4696, 2376>>, <<27317, 12345>>, <<32431, 60790>>, <<56816, 52836>>,
  <<30628, 22428>>, <<36130, 32571>>, <<29248, 51966>>, <<45140, 17953>>, <<27640, 21848>>, <<43481, 49127>>, <<54219, 34849>>, <<39840, 60449>>,
  <<50365, 17953>>, <<62052, 39122>>, <<39359, 28073>>, <<55937, 31537>>, <<4716, 54295>>, <<35234, 54990>>, <<3729, 49707>>, <<4970, 8865>>,
  <<24639, 30013>>, <<61230, 42777>>, <<33693, 51005>>, <<338, 35416>>, <<49570, 36910>>, <<64406, 33625>>, <<10354, 23563>>, <<44710, 11805>>,
  <<1695, 19466>>, <<10383, 35376>>, <<52136, 16194>>, <<53672, 8534>>, <<38255, 15468>>, <<28295, 42356>>, <<3023, 2025>>, <<56972, 64265>>,
  <<8456, 62871>>, <<22047, 21085>>, <<45045, 13680>>, <<33247, 50777>>, <<6199, 22838>>, <<1423, 5378>>, <<59953, 10964>>, <<3412, 9222>>,
  <<38449, 38879>>, <<18964, 21607>>, <<52344, 44531>>, <<20644, 15815>>, <<391, 25357>>, <<11477, 32912>>, <<49650, 58343>>, <<54780, 64395>>,
  <<2343, 3153>>, <<43448, 63801>>, <<1363, 10263>>, <<14243, 62971>>, <<48914, 3399>>, <<24764, 39277>>, <<11623, 51616>>, <<21397, 51589>>,
  <<27496, 1324>>, <<34351, 34342>>, <<26038, 11492>>, <<59489, 6090>>, <<57195, 55499>>, <<46604, 31473>>, <<8855, 3422>>, <<21398, 42252>>,
  <<38733, 4177>>, <<4202, 65477>>, <<31058, 27276>>, <<38192, 37919>>, <<41791, 29600>>, <<63123, 6211>>, <<43736, 702>>, <<24699, 26378>>,
  <<3716, 53936>>, <<21487, 29760>>, <<54106, 14440>>, <<23146, 31669>>, <<379, 63376>>, <<11454, 1164>>, <<2080, 45464>>, <<10171, 51687>>,
  <<32980, 36730>>, <<64445, 40094>>, <<62581, 4345>>, <<44037, 31960>>, <<14344, 5896>>, <<61641, 51931>>, <<39927, 57554>>, <<39556, 55153>>,
  <<65243, 24521>>, <<20063, 19636>>, <<36614, 22741>>, <<9136, 42007>>, <<1160, 42336>>, <<52467, 51942>>, <<38195, 24045>>, <<27114, 33913>>,
  <<12384, 48792>>, <<62293, 30631>>, <<22231, 27388>>, <<57749, 27946>>, <<33591, 43328>>, <<50208, 12821>>, <<48225, 51097>>, <<64455, 63908>>,
  <<59255, 60170>>, <<19717, 45203>>, <<62190, 3562>>, <<51440, 9584>>, <<18899, 58240>>, <<46549, 45256>>, <<14372, 40768>>, <<44930, 40549>>,
  <<60582, 53994>>, <<1218, 38>>, <<27336, 56215>>, <<28345, 8748>>, <<842, 55851>>, <<4372, 15573>>, <<36371, 30700>>, <<36062, 37074>>,
  <<59979, 27807>>, <<24437, 27421>>, <<55650, 43425>>, <<44251, 6282>>, <<23342, 31030>>, <<62682, 39652>>, <<15913, 54340>>, <<61744, 29378>>,
  <<58873, 49249>>, <<39523, 54925>>, <<28596, 12955>>, <<64557, 30773>>, <<56964, 11628>>, <<54074, 64542>>, <<41998, 41144>>, <<22834, 14699>>,
  <<14224, 6455>>, <<7134, 30885>>, <<52716, 16429>>, <<24341, 12234>>, <<54450, 21982>>, <<47642, 31604>>, <<9783, 59098>>, <<33723, 8915>>,
  <<41941, 48754>>, <<18492, 23157>>, <<42919, 48099>>, <<59148, 51078>>, <<62086, 7431>>, <<7378, 43781>>, <<45542, 2155>>, <<52729, 64341>>,
  <<35977, 41037>>, <<39737, 50809>>, <<46699, 52976>>, <<8172, 28671>>, <<58376, 45000>>, <<31074, 3143>>, <<7855, 59268>>, <<37714, 18299>>,
  <<62045, 48194>>, <<54401, 13783>>, <<21676, 16249>>, <<28511, 21148>>, <<37062, 49846>>, <<57504, 60605>>, <<35400, 48894>>, <<6707, 62030>>,
  <<9344, 30694>>, <<4444, 46090>>, <<57964, 53274>>, <<3306, 10475>>, <<47597, 5419>>, <<60166, 34549>>, <<55024, 17179>>, <<56766, 23990>>,
  <<452, 12779>>, <<65226, 39517>>, <<20453, 2171>>, <<46773, 58819>>, <<45104, 59065>>, <<16978, 9759>>, <<13574, 32595>>, <<6342, 47676>>,
  <<18160, 60174>>, <<3693, 16979>>, <<63179, 52885>>, <<4621, 26685>>, <<60707, 57818>>, <<16804, 4845>>, <<6685, 33712>>, <<57938, 4185>>,
  <<37161, 41773>>, <<33487, 51122>>, <<49372, 46410>>, <<4511, 14053>>, <<17038, 32739>>, <<60754, 25972>>, <<777, 10695>>, <<9042, 61379>>,
  <<15966, 46256>>, <<13277, 12363>>, <<37170, 6353>>, <<1762, 23065>>, <<23455, 37600>>, <<56138, 19434>>, <<35753, 57962>>, <<24966, 40760>>,
  <<837, 30614>>, <<22618, 18239>>, <<14977, 60542>>, <<28768, 65297>>, <<3678, 19305>>, <<33078, 45664>>, <<10831, 14898>>, <<17690, 50836>>,
  <<804, 38170>>, <<44001, 42615>>, <<61613, 10846>>, <<44190, 46896>>, <<848, 57390>>, <<39822, 17584>>, <<14925, 26318>>, <<62813, 34436>>,
  <<46860, 60031>>, <<25327, 3532>>, <<61133, 60564>>, <<26429, 45390>>, <<6198, 44905>>, <<43430, 25594>>, <<36255, 8023>>, <<28416, 36496>>,
  <<37843, 24750>>, <<28933, 57599>>, <<29755, 29050>>, <<11020, 48757>>, <<52252, 29963>>, <<59681, 11901>>, <<34759, 38179>>, <<5723, 39469>>,
  <<39291, 54982>>, <<10681, 48319>>, <<3695, 18179>>, <<10200, 48345>>, <<7170, 39785>>, <<54920, 49764>>, <<49938, 28178>>, <<47525, 42071>>,
  <<18315, 7138>>, <<41013, 18177>>, <<55231, 12870>>, <<26839, 28365>>, <<32145, 45138>>, <<43141, 27944>>, <<55500, 11728>>, <<55959, 45695>>,
  <<42201, 51905>>, <<43639, 62534>>, <<47095, 7360>>, <<18671, 38968>>, <<32679, 18255>>, <<42433, 27786>>, <<2395, 61715>>, <<30468, 38486>>,
  <<22492, 21275>>, <<45971, 31085>>, <<40113, 15283>>, <<50390, 10647>>, <<19307, 48133>>, <<25282, 31086>>, <<10727, 52453>>, <<31928, 9358>>,
  <<51407, 64697>>, <<21746, 1906>>, <<6214, 7197>>, <<4583, 35087>>, <<52051, 23198>>, <<55778, 6333>>, <<25583, 2255>>, <<24585, 13472>>,
  <<38180, 19659>>, <<53819, 45441>>, <<32990, 62411>>, <<64682, 58537>>, <<60498, 42268>>, <<61595, 58844>>, <<29094, 33945>>, <<34519, 58158>>,
  <<37935, 21722>>, <<17877, 7332>>, <<819, 65339>>, <<4441, 64440>>, <<47759, 39277>>, <<46875, 22029>>, <<28934, 22928>>, <<29400, 47505>>,
  <<53645, 31395>>, <<36353, 4102>>, <<30630, 38874>>, <<52306, 57256>>, <<60987, 47721>>, <<9703, 32001>>, <<2812, 10538>>, <<11993, 4754>>,
  <<40016, 14850>>, <<17556, 41007>>, <<34841, 50432>>, <<32386, 56497>>, <<27922, 48465>>, <<59051, 27378>>, <<52655, 25048>>, <<35788, 59741>>,
  <<57102, 9052>>, <<11160, 6611>>, <<53005, 3275>>, <<21154, 11453>>, <<46389, 1512>>, <<63010, 14806>>, <<58038, 44582>>, <<34820, 11828>>,
  <<63218, 39837>>, <<28204, 33518>>, <<7065, 32057>>, <<54717, 19126>>, <<62338, 58674>>, <<58287, 58864>>, <<16476, 29129>>, <<34810, 40454>>,
  <<51205, 16953>>, <<6905, 8163>>, <<30566, 58191>>, <<64377, 17358>>, <<36653, 49727>>, <<55798, 44098>>, <<25851, 8722>>, <<47065, 18077>>,
  <<34327, 4595>>, <<30163, 6283>>, <<33779, 36940>>, <<28637, 13481>>, <<27684, 46908>>, <<53660, 13204>>, <<21132, 27270>>, <<38279, 58153>>,
  <<18320, 14082>>, <<7633, 25181>>, <<50150, 643>>, <<38391, 36388>>, <<48069, 35401>>, <<56134, 4973>>, <<10214, 13978>>, <<44019, 57508>>,
  <<52822, 29356>>, <<60665, 8663>>, <<40743, 40768>>, <<55754, 20207>>, <<13519, 6221>>, <<24736, 60315>>, <<5574, 45708>>, <<61463, 8931>>,
  <<2620, 19573>>, <<59961, 51739>>, <<13794, 10280>>, <<47178, 32303>>, <<48226, 37038>>, <<58000, 52147>>, <<40209, 59337>>, <<30951, 30744>>,
  <<57514, 571>>, <<2130, 46873>>, <<59790, 40455>>, <<9195, 9199>>, <<15967, 31685>>, <<10330, 34440>>, <<32974, 31344>>, <<36753, 2413>>,
  <<11814, 61959>>, <<52714, 41758>>, <<44391, 63186>>, <<64539, 17529>>, <<33725, 23485>>, <<27597, 52066>>, <<58885, 27118>>, <<30737, 57306>>,
  <<57420, 33394>>, <<29608, 32006>>, <<42313, 23377>>, <<35911, 45261>>, <<2567, 31217>>, <<60347, 16468>>, <<48243, 45850>>, <<17574, 33901>>,
  <<17588, 2559>>, <<34851, 43499>>, <<40480, 5798>>, <<1679, 36119>>, <<18092, 563>>, <<60960, 61901>>, <<19464, 20133>>, <<27554, 35898>>,
  <<17168, 49320>>, <<44295, 45795>>, <<7931, 21482>>, <<28858, 7673>>, <<44526, 20732>>, <<32878, 52010>>, <<39712, 59049>>, <<42230, 57391>>,
  <<41228, 25364>>, <<22915, 9710>>, <<23446, 43957>>, <<49819, 20807>>, <<58862, 22113>>, <<52734, 45720>>, <<34519, 37437>>, <<51589, 60701>>,
  <<31270, 38006>>, <<24859, 61061>>, <<32183, 6442>>, <<4410, 34709>>, <<45134, 15769>>, <<26632, 37837>>, <<21183, 59279>>, <<48484, 35788>>,
  <<3419, 27155>>, <<48566, 53172>>, <<32367, 12649>>, <<12950, 14557>>, <<23910, 6790>>, <<24777, 19143>>, <<62882, 5730>>, <<43402, 58274>>,
  <<25073, 7795>>, <<21739, 53550>>, <<47702, 33393>>, <<38604, 58968>>, <<10127, 33750>>, <<55319, 16708>>, <<7415, 40487>>, <<64176, 26879>>,
  <<52423, 30089>>, <<46988, 31999>>, <<27835, 62477>>, <<18416, 32620>>, <<64544, 14703>>, <<12846, 37427>>, <<61120, 31423>>, <<53070, 18274>>,
  <<490, 61795>>, <<15783, 15196>>, <<16282, 5900>>, <<57774, 61226>>, <<10935, 15038>>, <<51904, 14645>>, <<29962, 30252>>, <<57072, 17879>>,
  <<59631, 34912>>, <<52991, 45517>>, <<56531, 49410>>, <<46440, 25861>>, <<43642, 43776>>, <<13992, 46532>>, <<31511, 15851>>, <<52500, 26660>>,
  <<50702, 52156>>, <<47691, 7728>>, <<47847, 33700>>, <<50446, 63259>>, <<13731, 20494>>, <<22019, 38678>>, <<33889, 53012>>, <<56044, 59176>>,
  <<45757, 58795>>, <<28107, 42777>>, <<30474, 47918>>, <<64405, 29040>>, <<23671, 34244>>, <<59145, 53926>>, <<9685, 61112>>, <<15730, 57711>>,
  <<33680, 37136>>, <<61668, 39229>>, <<21199, 52065>>, <<63213, 7602>>, <<41291, 551>>, <<46950, 20200>>, <<15896, 25953>>, <<63553, 50577>>,
  <<22848, 18672>>, <<40669, 20714>>, <<46987, 47462>>, <<1200, 39504>>, <<26055, 29325>>, <<56390, 39>>, <<29278, 41450>>, <<27424, 28511>>,
  <<9460, 40023>>, <<60916, 1968>>, <<50726, 32467>>, <<57164, 27685>>, <<33214, 55137>>, <<4022, 39109>>, <<47387, 31821>>, <<24352, 47803>>,
  <<36526, 34739>>, <<27773, 2419>>, <<65009, 28378>>, <<928, 23781>>, <<21703, 42912>>, <<27947, 9867>>, <<34283, 31760>>, <<14137, 42026>>,
  <<17459, 24625>>, <<32476, 38954>>, <<2381, 29667>>, <<56453, 32602>>, <<55421, 23492>>, <<32231, 24949>>, <<43193, 48858>>, <<13678, 1141>>,
  <<4536, 32369>>, <<38219, 7001>>, <<56828, 54709>>, <<47615, 38727>>, <<51664, 45658>>, <<53372, 60211>>, <<53906, 5166>>, <<2186, 36992>>,
  <<39709, 3785>>, <<11388, 45734>>, <<47181, 229>>, <<49701, 13441>>, <<12257, 44684>>, <<1883, 37006>>, <<15840, 38174>>, <<3702, 45945>>,
  <<8551, 60977>>, <<12410, 19619>>, <<51267, 63097>>, <<49000, 1557>>, <<25550, 55506>>, <<44776, 14286>>, <<32978, 43924>>, <<38527, 30970>>,
  <<26591, 39042>>, <<43166, 39293>>, <<17043, 49078>>, <<24658, 54967>>, <<58617, 46397>>, <<1340, 498>>, <<8792, 51569>>, <<64621, 56707>>,
  <<1314, 33453>>, <<2737, 7722>>, <<47150, 10043>>, <<2899, 1560>>, <<27070, 59579>>, <<26932, 48674>>, <<10272, 58524>>, <<46935, 41154>>,
  <<50802, 62293>>, <<16536, 35100>>, <<61737, 33706>>, <<21307, 60304>>, <<59545, 64366>>, <<20547, 33058>>, <<16555, 4773>>, <<32915, 21900>>,
  <<50271, 50958>>, <<8212, 19816>>, <<37149, 54958>>, <<10636, 40539>>, <<31555, 45011>>, <<34541, 12056>>, <<48427, 20043>>, <<40628, 30562>>,
  <<55055, 27311>>, <<11980, 42317>>, <<37529, 36681>>, <<64925, 53129>>, <<61921, 54088>>, <<63938, 10184>>, <<15365, 28681>>, <<37496, 37796>>,
  <<60485, 41498>>, <<57341, 58536>>, <<64102, 59183>>, <<47367, 61359>>, <<63795, 62860>>, <<62661, 17445>>, <<15539, 37931>>, <<57569, 43917>>,
  <<30466, 14940>>, <<56643, 34907>>, <<1097, 65181>>, <<39216, 30078>>, <<58556, 50380>>, <<5552, 12642>>, <<8852, 34932>>, <<2552, 38415>>,
  <<45286, 40707>>, <<44267, 38404>>, <<42125, 63997>>, <<34124, 15566>>, <<2816, 52327>>, <<19514, 51867>>, <<28883, 37925>>, <<7697, 3074>>,
  <<7431, 44045>>, <<14664, 58795>>, <<60581, 32478>>, <<44334, 18363>>, <<60156, 10697>>, <<42973, 33602>>, <<30367, 34508>>, <<56996, 1220>>,
  <<9840, 58555>>, <<18266, 64750>>, <<55893, 42214>>, <<58223, 21671>>, <<35050, 44101>>, <<14625, 10997>>, <<53627, 9914>>, <<4406, 49112>>,
  <<46005, 27655>>, <<32663, 35481>>, <<13375, 23409>>, <<32841, 8313>>, <<45367, 49327>>, <<60016, 7653>>, <<26048, 10967>>, <<30274, 36362>>,
  <<55622, 28441>>, <<21902, 62342>>, <<43281, 50739>>, <<11450, 5364>>, <<36408, 39429>>, <<38504, 25876>>, <<62213, 229>>, <<29674, 26337>>,
  <<29653, 23288>>, <<17437, 3664>>, <<53226, 19692>>, <<28327, 19823>>, <<52326, 47814>>, <<11055, 38527>>, <<14809, 26119>>, <<61052, 22733>>,
  <<12871, 2820>>, <<15986, 35063>>, <<64880, 29506>>, <<3818, 7004>>, <<20045, 58151>>, <<4211, 43313>>, <<46306, 16110>>, <<62658, 10359>>,
  <<156, 359>>, <<55967, 59235>>, <<25038, 61183>>, <<51498, 16493>>, <<38240, 24573>>, <<61334, 44465>>, <<25199, 54304>>, <<22948, 18019>>,
  <<64453, 47875>>, <<26026, 22565>>, <<62215, 16600>>, <<41177, 62224>>, <<33442, 27109>>, <<39239, 48958>>, <<14339, 22769>>, <<4496, 50498>>,
  <<46581, 749>>, <<6889, 19396>>, <<40974, 50153>>, <<52831, 12751>>, <<27589, 35952>>, <<48795, 21867>>, <<26333, 32880>>, <<56201, 24728>>,
  <<16277, 49604>>, <<5741, 9886>>, <<63281, 23554>>, <<18242, 5069>>, <<28827, 57217>>, <<64932, 65067>>, <<18176, 11198>>, <<59023, 63379>>,
  <<23700, 20161>>, <<39615, 24273>>, <<55469, 59289>>, <<28992, 32887>>, <<35481, 61732>>, <<62986, 25530>>, <<27429, 20820>>, <<9947, 50483>>,
  <<58581, 39248>>, <<40214, 7566>>, <<64033, 35091>>, <<36217, 52999>>, <<1328, 31812>>, <<63736, 54819>>, <<43555, 18442>>, <<24938, 45928>>,
  <<50331, 36982>>, <<27341, 26339>>, <<31661, 3777>>, <<2329, 54628>>, <<39295, 37470>>, <<47198, 12226>>, <<22396, 29985>>, <<56163, 26631>>,
  <<17781, 17103>>, <<16524, 35225>>, <<6984, 32279>>, <<23937, 59137>>, <<51756, 54811>>, <<762, 54478>>, <<61081, 40985>>, <<61522, 22440>>,
  <<2236, 20466>>, <<48183, 43860>>, <<59957, 49257>>, <<34656, 17299>>, <<43688, 23707>>, <<3792, 8379>>, <<50195, 53778>>, <<54800, 39426>>,
  <<26446, 23496>>, <<46878, 57360>>, <<41173, 23017>>, <<33887, 22970>>, <<4707, 52498>>, <<48938, 1000>>, <<53925, 60826>>, <<32453, 53781>>,
  <<41747, 45113>>, <<7762, 58738>>, <<15521, 65184>>, <<5317, 11690>>, <<36525, 43170>>, <<44615, 39877>>, <<65493, 23433>>, <<21342, 12197>>,
  <<27613, 50072>>, <<12552, 29812>>, <<54188, 45597>>, <<31717, 626>>, <<4929, 5156>>, <<61661, 37776>>, <<24244, 33675>>, <<37580, 33897>>,
  <<33471, 9711>>, <<46861, 59096>>, <<50060, 51840>>, <<13248, 63479>>, <<23459, 52187>>, <<33469, 58067>>, <<42520, 60435>>, <<56393, 48877>>,
  <<57669, 23472>>, <<59955, 63223>>, <<65308, 4178>>, <<22693, 21634>>, <<40158, 64785>>, <<62850, 1791>>, <<11733, 30013>>, <<11290, 46427>>,
  <<3722, 41357>>, <<62004, 49236>>, <<30040, 45048>>, <<3189, 28580>>, <<40013, 11387>>, <<33360, 11949>>, <<28586, 61896>>, <<45970, 57497>>,
  <<49580, 34140>>, <<60986, 53118>>, <<57786, 13036>>, <<51746, 26304>>, <<57915, 44873>>, <<52197, 16206>>, <<26332, 59519>>, <<58218, 15473>>,
  <<10066, 46678>>, <<55261, 1765>>, <<48268, 23404>>, <<27749, 63802>>, <<3165, 21085>>, <<65062, 38656>>, <<22321, 18024>>, <<63598, 20865>>,
  <<48927, 42208>>, <<17067, 10509>>, <<13281, 28770>>, <<26669, 38264>>, <<8744, 28018>>, <<62918, 5287>>, <<37265, 13420>>, <<32920, 51223>>,
  <<9969, 15383>>, <<23541, 38045>>, <<34938, 55877>>, <<16484, 34889>>, <<3736, 43666>>, <<61080, 748>>, <<22972, 42436>>, <<57024, 21089>>,
  <<43636, 65074>>, <<12619, 64028>>, <<7299, 44080>>, <<38835, 29583>>, <<19688, 61201>>, <<33975, 49942>>, <<8210, 64857>>, <<59017, 6103>>,
  <<54913, 59967>>, <<28694, 57510>>, <<2693, 46754>>, <<36693, 61458>>, <<11264, 10269>>, <<13625, 9426>>, <<13135, 39218>>, <<7759, 58941>>,
  <<36899, 17761>>, <<59768, 8479>>, <<40852, 9866>>, <<26246, 63363>>, <<21252, 36535>>, <<998, 34688>>, <<35914, 42877>>, <<34228, 21055>>,
  <<9754, 27395>>, <<42, 12069>>, <<56907, 51055>>, <<12125, 41365>>, <<5325, 51717>>, <<52682, 38143>>, <<31056, 64201>>, <<45014, 9016>>,
  <<19850, 6075>>, <<24597, 36743>>, <<19157, 52095>>, <<36526, 19898>>, <<55603, 39178>>, <<45086, 59627>>, <<46123, 20817>>, <<19369, 37950>>,
  <<20441, 8151>>, <<60346, 43327>>, <<19789, 65494>>, <<30549, 25552>>, <<25382, 13582>>, <<37643, 14895>>, <<47332, 57176>>, <<41427, 65487>>,
  <<10635, 23672>>, <<24746, 51465>>, <<44234, 31788>>, <<54904, 47575>>, <<9739, 39860>>, <<52792, 60290>>, <<64730, 44017>>, <<14102, 60207>>,
  <<55837, 60636>>, <<43967, 11556>>, <<36254, 25904>>, <<15593, 58473>>, <<61083, 29852>>, <<48802, 27516>>, <<17376, 48520>>, <<25103, 6259>>,
  <<60878, 35656>>, <<55090, 31419>>, <<16692, 9344>>, <<54725, 13666>>, <<5083, 43202>>, <<27845, 54882>>, <<5868, 43770>>, <<45289, 3018>>,
  <<62559, 45543>>, <<223, 59518>>, <<39678, 44979>>, <<33536, 24631>>, <<29142, 56283>>, <<43270, 46938>>, <<33949, 20295>>, <<47784, 34774>>,
  <<45447, 2212>>, <<60729, 40729>>, <<3021, 1630>>, <<54180, 34857>>, <<16096, 64575>>, <<23404, 49743>>, <<6248, 54895>>, <<59333, 64072>>,
  <<64052, 14752>>, <<9632, 32901>>, <<2937, 33333>>, <<38914, 19001>>, <<58776, 28893>>, <<31194, 48138>>, <<27805, 33555>>, <<58118, 36273>>,
  <<12537, 24775>>, <<63321, 17022>>, <<28658, 22936>>, <<49530, 12496>>, <<1636, 22551>>, <<29635, 60668>>, <<34568, 60490>>, <<15951, 23123>>,
  <<21394, 32162>>, <<15092, 3476>>, <<48193, 59180>>, <<10445, 64014>>, <<53882, 18468>>, <<43009, 6938>>, <<3211, 62602>>, <<50372, 15316>>,
  <<31028, 43618>>, <<61913, 63240>>, <<30511, 26921>>, <<58225, 2556>>, <<22368, 64998>>, <<33294, 6018>>, <<30689, 29674>>, <<50519, 41259>>,
  <<470, 13210>>, <<24861, 22486>>, <<4592, 40960>>, <<27124, 28832>>, <<33051, 62527>>, <<34147, 29676>>, <<23147, 3144>>, <<2285, 7965>>,
  <<59967, 57470>>, <<36229, 43600>>, <<20233, 60600>>, <<10124, 52694>>, <<18890, 46179>>, <<31617, 24889>>, <<26297, 63801>>, <<37837, 1011>>,
  <<25679, 59091>>, <<56292, 35518>>, <<45449, 53560>>, <<11397, 16868>>, <<38022, 13181>>, <<44432, 54672>>, <<65008, 23440>>, <<51925, 55010>>,
  <<29165, 4270>>, <<32012, 58137>>, <<1738, 58370>>, <<56119, 56428>>, <<50908, 27344>>, <<63374, 2354>>, <<37560, 56952>>, <<21499, 27923>>,
  <<18335, 36489>>, <<7413, 14548>>, <<27765, 16391>>, <<39616, 38823>>, <<6513, 1037>>, <<38948, 3817>>, <<63255, 32941>>, <<39368, 41683>>,
  <<58083, 23361>>, <<5451, 32224>>, <<40852, 27323>>, <<41444, 26385>>, <<57275, 25966>>, <<44803, 2127>>, <<40567, 63511>>, <<23169, 17436>>,
  <<58988, 9171>>, <<50751, 10990>>, <<42831, 25121>>, <<61614, 33915>>, <<10245, 24890>>, <<36172, 41560>>, <<31076, 34255>>, <<64259, 18972>>,
  <<15875, 27527>>, <<18226, 31929>>, <<58301, 57496>>, <<52511, 852>>, <<19605, 44914>>, <<51897, 59069>>, <<36721, 33525>>, <<45755, 29276>>,
  <<61996, 44775>>, <<34922, 1399>>, <<2956, 58677>>, <<7844, 7820>>, <<35716, 44611>>, <<30622, 56613>>, <<38244, 50096>>, <<64108, 53157>>,
  <<6021, 44842>>, <<42386, 62276>>, <<16413, 45461>>, <<36043, 50721>>, <<3365, 42062>>, <<22995, 64703>>, <<51237, 57941>>, <<57342, 33517>>,
  <<400, 62791>>, <<26266, 12012>>, <<24409, 42066>>, <<5592, 27510>>, <<42103, 40132>>, <<14693, 57203>>, <<51651, 47781>>, <<30814, 64953>>,
  <<58997, 57679>>, <<6911, 64626>>, <<24469, 57442>>, <<57293, 9814>>, <<18893, 20090>>, <<40384, 4297>>, <<62670, 28849>>, <<46570, 65307>>,
  <<27592, 44875>>, <<48946, 30551>>, <<9243, 33386>>, <<11346, 51202>>, <<4867, 22102>>, <<40344, 8686>>, <<4698, 29544>>, <<54954, 12253>>,
  <<35287, 20899>>, <<27026, 3252>>, <<25319, 37163>>, <<34212, 13549>>, <<42169, 41119>>, <<15311, 23394>>, <<45055, 44157>>, <<40392, 28169>>,
  <<9622, 9048>>, <<44278, 10716>>, <<33661, 45670>>, <<54344, 23546>>, <<61355, 23258>>, <<15283, 61907>>, <<14957, 33725>>, <<11353, 37487>>,
  <<32281, 17964>>, <<64317, 22808>>, <<18522, 36532>>, <<8428, 51120>>, <<39612, 15629>>, <<8755, 25931>>, <<21326, 36934>>, <<8543, 35287>>,
  <<35879, 50051>>, <<11369, 749>>, <<61477, 41571>>, <<26718, 36738>>, <<48178, 24176>>, <<30716, 52654>>, <<50655, 18774>>, <<60771, 47921>>,
  <<19260, 32220>>, <<48464, 62855>>, <<22906, 23951>>, <<50514, 59385>>, <<48341, 6986>>, <<51225, 58865>>, <<50203, 4629>>, <<45344, 45100>>,
  <<15638, 50145>>, <<4310, 27624>>, <<46782, 8739>>, <<64102, 54638>>, <<47404, 8724>>, <<14292, 64783>>, <<37890, 21707>>, <<6581, 31670>>,
  <<33317, 21292>>, <<20377, 28508>>, <<61001, 47251>>, <<60574, 36015>>, <<331, 44349>>, <<63388, 16402>>, <<42355, 2388>>, <<63427, 6521>>,
  <<38859, 56712>>, <<61663, 14739>>, <<61785, 64791>>, <<60364, 1107>>, <<25492, 11844>>, <<54954, 26115>>, <<20853, 886>>, <<36699, 5137>>,
  <<22705, 49705>>, <<37368, 41050>>, <<35650, 57209>>, <<16764, 39575>>, <<60847, 10223>>, <<3943, 58457>>, <<56386, 60768>>, <<19051, 26841>>,
  <<63282, 15449>>, <<25581, 10454>>, <<23379, 46546>>, <<44542, 64327>>, <<23185, 16651>>, <<20483, 4549>>, <<11980, 17849>>, <<56237, 17301>>,
  <<18212, 16084>>, <<31379, 52122>>, <<59554, 18994>>, <<55553, 32358>>, <<28872, 47362>>, <<31188, 6450>>, <<959, 45847>>, <<5446, 63270>>,
  <<20902, 14717>>, <<38116, 53923>>, <<24058, 23847>>, <<59761, 29638>>, <<29619, 22524>>, <<43790, 48014>>, <<31572, 65362>>, <<64087, 59240>>,
  <<12286, 26231>>, <<44339, 1072>>, <<12989, 54931>>, <<31550, 22064>>, <<35802, 26613>>, <<35641, 60313>>, <<59549, 6314>>, <<55023, 65400>>,
  <<65471, 50704>>, <<52650, 13212>>, <<23326, 2479>>, <<6769, 48734>>, <<57579, 7322>>, <<23801, 48593>>, <<34695, 18364>>, <<50838, 62862>>,
  <<26703, 29137>>, <<59767, 28190>>, <<62330, 30546>>, <<57871, 8965>>, <<40243, 8911>>, <<43555, 4593>>, <<4769, 37953>>, <<25370, 40439>>,
  <<4383, 58422>>, <<24719, 50260>>, <<22569, 35663>>, <<36879, 2157>>, <<27165, 64085>>, <<9724, 20332>>, <<22620, 52069>>, <<45978, 11230>>,
  <<765, 53544>>, <<58319, 10449>>, <<58789, 50152>>, <<3825, 55008>>, <<50351, 61515>>, <<35646, 9038>>, <<64464, 60532>>, <<11726, 33351>>,
  <<61867, 57078>>, <<7661, 17632>>, <<55868, 29558>>, <<56024, 24869>>, <<55365, 9381>>, <<8671, 38786>>, <<27853, 42477>>, <<48157, 38696>>,
  <<24421, 55969>>, <<57173, 58216>>, <<40213, 9764>>, <<17779, 2758>>, <<5995, 3210>>, <<30516, 26190>>, <<15060, 51221>>, <<28041, 14932>>,
  <<11397, 10189>>, <<47816, 64601>>, <<56393, 49147>>, <<10658, 24703>>, <<57910, 24802>>, <<31099, 27412>>, <<55233, 41744>>, <<26899, 58654>>,
  <<36318, 42361>>, <<41067, 47507>>, <<13346, 25834>>, <<32259, 710>>, <<61129, 25435>>, <<45002, 40488>>, <<51089, 23627>>, <<63305, 2466>>,
  <<57326, 56469>>, <<9781, 20852>>, <<17259, 20381>>, <<34936, 27187>>, <<15665, 26065>>, <<16616, 46907>>, <<31684, 25028>>, <<31086, 3878>>,
  <<60025, 42446>>, <<4033, 38019>>, <<49162, 59472>>, <<5074, 58099>>, <<17544, 43480>>, <<5905, 20514>>, <<2501, 57141>>, <<46126, 34203>>,
  <<53156, 26305>>, <<31781, 24640>>, <<28510, 15190>>, <<32233, 13297>>, <<3957, 30071>>, <<8099, 3821>>, <<59082, 7433>>, <<30874, 10292>>,
  <<53353, 30522>>, <<41574, 29541>>, <<28425, 18220>>, <<36839, 58338>>, <<18737, 34764>>, <<38777, 35190>>, <<7633, 52412>>, <<11400, 52614>>,
  <<28634, 21615>>, <<12004, 65515>>, <<22819, 34416>>, <<11379, 13427>>, <<8941, 4577>>, <<51862, 60366>>, <<27934, 48137>>, <<26832, 61481>>,
  <<864, 4378>>, <<579, 22052>>, <<34134, 59792>>, <<41583, 53738>>, <<56424, 18930>>, <<36066, 43005>>, <<47211, 13858>>, <<29236, 64625>>,
  <<39557, 30334>>, <<38797, 35871>>, <<37020, 48719>>, <<5123, 16816>>, <<57291, 55513>>, <<57980, 13789>>, <<28112, 30358>>, <<1398, 31127>>,
  <<29973, 26100>>, <<55060, 28124>>, <<985, 28061>>, <<34879, 24156>>, <<16938, 32857>>, <<20648, 14398>>, <<43102, 44508>>, <<21214, 64591>>,
  <<23494, 3799>>, <<18807, 47334>>, <<46808, 19320>>, <<34038, 27271>>, <<42941, 58040>>, <<32185, 48541>>, <<1217, 65328>>, <<27516, 35466>>,
  <<49131, 35698>>, <<41111, 21886>>, <<3681, 50066>>, <<44797, 21798>>, <<61753, 18857>>, <<56551, 41228>>, <<38084, 43311>>, <<55395, 9141>>,
  <<48097, 25878>>, <<23346, 46737>>, <<33636, 64571>>, <<3269, 7609>>, <<7566, 18770>>, <<5515, 61260>>, <<40185, 750>>, <<25903, 8139>>,
  <<56534, 7072>>, <<15062, 65037>>, <<41675, 54172>>, <<42014, 59739>>, <<36192, 1360>>, <<60079, 64457>>, <<32131, 32400>>, <<23143, 39041>>,
  <<53935, 56604>>, <<16309, 13176>>, <<64718, 60889>>, <<64136, 9517>>, <<45646, 4594>>, <<27741, 29767>>, <<34873, 47530>>, <<31507, 43682>>,
  <<55672, 11250>>, <<30977, 47405>>, <<44622, 44328>>, <<52140, 5638>>, <<34755, 42264>>, <<37768, 57600>>, <<19570, 24033>>, <<26572, 15276>>,
  <<19632, 54031>>, <<1226, 38148>>, <<54781, 61229>>, <<56574, 13323>>, <<11370, 37619>>, <<54099, 65073>>, <<43464, 37099>>, <<64466, 24737>>,
  <<887, 11948>>, <<2296, 5497>>, <<53822, 2125>>, <<14178, 44617>>, <<29634, 46978>>, <<47227, 16508>>, <<22465, 63997>>, <<26982, 10485>>,
  <<12465, 42270>>, <<52910, 50365>>, <<53594, 45352>>, <<54366, 49524>>, <<5236, 44440>>, <<8413, 26729>>, <<40217, 12274>>, <<54869, 24626>>,
  <<47884, 36513>>, <<57042, 24465>>, <<30625, 6001>>, <<31961, 10770>>, <<58445, 60718>>, <<58057, 58816>>, <<13825, 40092>>, <<31934, 30679>>,
  <<842, 62216>>, <<39891, 27240>>, <<45044, 64070>>, <<41997, 46359>>, <<14078, 29293>>, <<65460, 25096>>, <<35810, 21111>>, <<12249, 31276>>,
  <<6856, 16732>>, <<36780, 42745>>, <<36461, 57915>>, <<25652, 16669>>, <<54067, 6621>>, <<33828, 11213>>, <<60228, 15626>>, <<35416, 29972>>,
  <<17789, 32924>>, <<26582, 741>>, <<58110, 57086>>, <<41190, 16704>>, <<65073, 48777>>, <<61195, 41945>>, <<4235, 56422>>, <<18405, 21678>>,
  <<42234, 33802>>, <<3197, 5186>>, <<507, 7158>>, <<61888, 52389>>, <<60540, 23791>>, <<39163, 25584>>, <<34813, 10588>>, <<1353, 20590>>,
  <<8295, 43448>>, <<14418, 64828>>, <<6997, 64790>>, <<14321, 34118>>, <<46873, 44317>>, <<53524, 12358>>, <<25044, 59917>>, <<19959, 32736>>,
  <<6191, 54953>>, <<38032, 38720>>, <<59075, 37405>>, <<22290, 27828>>, <<35426, 43276>>, <<64849, 13431>>, <<24485, 36444>>, <<42545, 40656>>,
  <<11651, 16825>>, <<53263, 18509>>, <<30380, 37627>>, <<4462, 27087>>, <<25610, 26332>>, <<594, 42299>>, <<19388, 43680>>, <<47953, 29569>>,
  <<45955, 372>>, <<16013, 1132>>, <<43496, 1797>>, <<18452, 6358>>, <<37857, 22575>>, <<24374, 65426>>, <<30774, 27607>>, <<50975, 23174>>,
  <<35844, 63107>>, <<55333, 44154>>, <<10503, 27174>>, <<52236, 41280>>, <<12488, 11696>>, <<23141, 25747>>, <<52461, 21569>>, <<17097, 61476>>,
  <<56169, 38720>>, <<62986, 31146>>, <<52307, 16915>>, <<61969, 32003>>, <<37344, 32945>>, <<60861, 31298>>, <<65024, 61717>>, <<47302, 1873>>,
  <<23062, 19292>>, <<14930, 61986>>, <<37229, 52056>>, <<13105, 19633>>, <<30703, 50324>>, <<14439, 224>>, <<62151, 59358>>, <<28596, 18269>>,
  <<13497, 55864>>, <<555, 54978>>, <<14419, 32614>>, <<49105, 39705>>, <<44801, 27061>>, <<13555, 36872>>, <<24252, 38244>>, <<61014, 11132>>,
  <<11598, 35984>>, <<59487, 15941>>, <<56833, 15812>>, <<33329, 37679>>, <<57678, 44037>>, <<53091, 42889>>, <<7576, 54852>>, <<14403, 34580>>,
  <<4044, 51817>>, <<26482, 26668>>, <<28834, 58338>>, <<63960, 57827>>, <<4628, 20764>>, <<44534, 5335>>, <<44125, 39605>>, <<49778, 54552>>,
  <<25265, 3123>>, <<49230, 45637>>, <<2989, 20488>>, <<35151, 40796>>, <<18072, 27249>>, <<31101, 57045>>, <<56031, 43779>>, <<25992, 42762>>,
  <<50746, 65491>>, <<40843, 10210>>, <<62465, 64159>>, <<21485, 13788>>, <<30544, 50594>>, <<19294, 36973>>, <<38240, 62578>>, <<18828, 34376>>,
  <<1829, 4630>>, <<40875, 44380>>, <<33127, 5732>>, <<3724, 58257>>, <<25300, 7669>>, <<43389, 25969>>, <<58342, 3379>>, <<49881, 24125>>,
  <<38978, 29337>>, <<40602, 3944>>, <<45160, 34290>>, <<60513, 65402>>, <<45189, 33030>>, <<24849, 21837>>, <<39291, 54667>>, <<17021, 30129>>,
  <<62173, 28620>>, <<52943, 24476>>, <<11337, 37376>>, <<14347, 27340>>, <<24349, 29810>>, <<20687, 54628>>, <<15826, 53451>>, <<49662, 54152>>,
  <<531, 15345>>, <<21361, 7536>>, <<62418, 46911>>, <<25141, 57521>>, <<44899, 8929>>, <<3617, 11661>>, <<44418, 810>>, <<59399, 33046>>,
  <<17423, 19076>>, <<30009, 28813>>, <<28009, 49143>>, <<56102, 3569>>, <<31844, 41274>>, <<42896, 40163>>, <<12952, 36713>>, <<10792, 5374>>,
  <<2666, 61338>>, <<38024, 16080>>, <<6567, 35700>>, <<57864, 23736>>, <<42044, 43359>>, <<18400, 48029>>, <<25348, 63897>>, <<9146, 1136>>,
  <<29948, 9266>>, <<25846, 48607>>, <<25162, 41575>>, <<27182, 24374>>, <<65068, 17762>>, <<44757, 60312>>, <<41, 49274>>, <<27673, 53706>>,
  <<28485, 45086>>, <<10071, 15207>>, <<23068, 34239>>, <<59054, 57993>>, <<20532, 43195>>, <<53435, 56155>>, <<49574, 59174>>, <<4101, 63596>>,
  <<29147, 313>>, <<27157, 61750>>, <<50009, 44448>>, <<22920, 26214>>, <<38326, 60495>>, <<61449, 9945>>, <<45494, 54451>>, <<4474, 34408>>,
  <<15127, 956>>, <<49804, 15255>>, <<4298, 22574>>, <<53731, 57164>>, <<27531, 25503>>, <<47096, 33455>>, <<34418, 13827>>, <<12205, 29790>>,
  <<59694, 13645>>, <<64993, 38725>>, <<22736, 48061>>, <<56886, 33139>>, <<52090, 2859>>, <<47647, 42610>>, <<7501, 14036>>, <<19442, 3193>>,
  <<24487, 57881>>, <<22273, 25388>>, <<35425, 41955>>, <<40384, 11489>>, <<22647, 36382>>, <<8680, 28559>>, <<41149, 27724>>, <<46543, 26928>>,
  <<45588, 52932>>, <<59050, 54001>>, <<17881, 33538>>, <<14130, 55390>>, <<53532, 23439>>, <<33675, 45605>>, <<45956, 37470>>, <<51698, 36567>>,
  <<29610, 63537>>, <<39793, 26316>>, <<41351, 19097>>, <<14942, 33405>>, <<32215, 51997>>, <<34708, 36706>>, <<24765, 30605>>, <<51319, 17826>>,
  <<30073, 28126>>, <<10987, 42450>>, <<65457, 47664>>, <<16414, 51229>>, <<11026, 25635>>, <<48467, 55989>>, <<51703, 49929>>, <<43878, 62176>>,
  <<35216, 44433>>, <<59374, 13272>>, <<41646, 10353>>, <<56683, 4299>>, <<9673, 19764>>, <<43679, 55512>>, <<1653, 31857>>, <<17088, 54365>>,
  <<52440, 16314>>, <<19116, 55468>>, <<35050, 22047>>, <<189, 5661>>, <<44501, 24005>>, <<63207, 52867>>, <<54739, 24755>>, <<3804, 32548>>,
  <<11635, 33552>>, <<58072, 64641>>, <<52465, 2525>>, <<11749, 5753>>, <<31552, 6695>>, <<43004, 7586>>, <<40389, 25456>>, <<28624, 64957>>,
  <<39481, 61259>>, <<25628, 42896>>, <<26756, 10823>>, <<57631, 58091>>, <<15998, 50896>>, <<58046, 40767>>, <<5574, 63907>>, <<23517, 57383>>,
  <<61768, 40004>>, <<31536, 1456>>, <<51294, 26716>>, <<45361, 17308>>, <<21352, 9240>>, <<20384, 12703>>, <<46547, 16883>>, <<59702, 15127>>,
  <<47854, 218>>, <<11356, 28406>>, <<57487, 55811>>, <<49953, 58085>>, <<33060, 16339>>, <<63047, 43582>>, <<48716, 47940>>, <<3449, 36588>>,
  <<17937, 323>>, <<18143, 56346>>, <<64461, 16938>>, <<59603, 42628>>, <<8555, 14135>>, <<13744, 60477>>, <<17407, 24273>>, <<41692, 20754>>,
  <<26359, 37614>>, <<23722, 11616>>, <<41497, 65233>>, <<54489, 18454>>, <<43985, 56472>>, <<20797, 50957>>, <<29623, 9536>>, <<26063, 59732>>,
  <<50707, 3777>>, <<40077, 64229>>, <<54314, 28552>>, <<8283, 41473>>, <<32443, 47745>>, <<47163, 52013>>, <<26531, 51585>>, <<4496, 25759>>,
  <<64149, 7463>>, <<23895, 48895>>, <<32278, 20875>>, <<57809, 45458>>, <<13876, 62987>>, <<31156, 15901>>, <<23031, 64473>>, <<58317, 22167>>,
  <<53020, 49401>>, <<2241, 21581>>, <<35326, 41747>>, <<11290, 20178>>, <<54478, 37700>>, <<61333, 51734>>, <<62400, 22749>>, <<4966, 28116>>,
  <<23837, 56741>>, <<49673, 15050>>, <<61327, 14371>>, <<24920, 2909>>, <<52754, 48534>>, <<57055, 29291>>, <<23645, 58989>>, <<4567, 8740>>,
  <<3866, 35319>>, <<44499, 43196>>, <<10590, 21857>>, <<26417, 10037>>, <<52813, 45736>>, <<49789, 32747>>, <<37273, 1456>>, <<24130, 45971>>,
  <<7483, 28988>>, <<20114, 650>>, <<21436, 46433>>, <<60319, 29793>>, <<15622, 51150>>, <<37793, 15470>>, <<41820, 1933>>, <<10589, 50302>>,
  <<47657, 20304>>, <<16684, 34605>>, <<19339, 48398>>, <<20822, 17183>>, <<38063, 56244>>, <<13690, 753>>, <<39999, 43568>>, <<9006, 59955>>,
  <<55529, 10863>>, <<43031, 25648>>, <<376, 3756>>, <<63113, 12645>>, <<34554, 6470>>, <<28648, 5210>>, <<54369, 11092>>, <<10487, 46815>>,
  <<33392, 51017>>, <<52281, 27244>>, <<4992, 9935>>, <<14320, 24260>>, <<15379, 5493>>, <<45937, 17289>>, <<12617, 15847>>, <<42309, 35309>>,
  <<44400, 65126>>, <<24738, 1851>>, <<885, 1692>>, <<36329, 37403>>, <<65109, 39189>>, <<4805, 47583>>, <<24527, 5489>>, <<40759, 4924>>,
  <<11430, 16685>>, <<29090, 7750>>, <<53244, 16473>>, <<38896, 42500>>, <<1397, 9891>>, <<26182, 37880>>, <<1448, 55496>>, <<50432, 42999>>,
  <<36496, 43305>>, <<61838, 29646>>, <<9709, 5004>>, <<10805, 1111>>, <<50864, 23981>>, <<58631, 20468>>, <<60514, 7631>>, <<17156, 616>>,
  <<12953, 49104>>, <<6561, 18660>>, <<21781, 54927>>, <<22483, 21510>>, <<44963, 19684>>, <<43021, 42535>>, <<7156, 27318>>, <<772, 54603>>,
  <<49246, 27764>>, <<29644, 41861>>, <<60787, 52360>>, <<28828, 41463>>, <<33871, 35090>>, <<16964, 49849>>, <<15655, 54430>>, <<34809, 39752>>,
  <<48216, 11465>>, <<13408, 46372>>, <<51985, 55494>>, <<32825, 24104>>, <<37404, 1853>>, <<16215, 23638>>, <<59803, 10716>>, <<57103, 58810>>,
  <<62413, 62557>>, <<30268, 26702>>, <<58189, 53843>>, <<30087, 60248>>, <<13337, 29214>>, <<22617, 54313>>, <<45428, 13020>>, <<60746, 37584>>,
  <<38086, 50766>>, <<17578, 46218>>, <<20064, 36859>>, <<21339, 252>>, <<11234, 5015>>, <<58405, 42569>>, <<10653, 31016>>, <<9706, 55875>>,
  <<14663, 45636>>, <<59763, 2952>>, <<21240, 17038>>, <<39392, 25434>>, <<49237, 3785>>, <<32989, 3434>>, <<36109, 8955>>, <<30211, 21643>>,
  <<43952, 42520>>, <<62817, 33832>>, <<17217, 46016>>, <<18351, 56932>>, <<14376, 121>>, <<17224, 55838>>, <<61240, 55893>>, <<19222, 46951>>,
  <<35030, 12060>>, <<11535, 13242>>, <<52351, 33982>>, <<41693, 6004>>, <<30561, 23604>>, <<19580, 29187>>, <<60931, 38235>>, <<44121, 24016>>,
  <<13852, 27562>>, <<59117, 13841>>, <<57059, 15314>>, <<38555, 54845>>, <<11277, 12849>>, <<17201, 49136>>, <<54641, 36568>>, <<21618, 58298>>,
  <<11917, 16843>>, <<45075, 25500>>, <<14291, 39622>>, <<5379, 64704>>, <<61082, 55379>>, <<9188, 54545>>, <<18721, 52382>>, <<39224, 56669>>,
  <<59548, 5841>>, <<53879, 52157>>, <<38592, 41446>>, <<27321, 31306>>, <<1956, 63259>>, <<55161, 27360>>, <<10196, 46830>>, <<18171, 195>>,
  <<48388, 1895>>, <<20529, 36620>>, <<55060, 18950>>, <<45386, 63828>>, <<40793, 21216>>, <<45532, 32874>>, <<59410, 33133>>, <<53262, 21437>>,
  <<6449, 45981>>, <<34325, 31285>>, <<24931, 59588>>, <<2763, 53389>>, <<40432, 19592>>, <<15899, 26598>>, <<47759, 61573>>, <<41841, 28243>>,
  <<20857, 4909>>, <<24565, 52450>>, <<11679, 13308>>, <<3753, 63803>>, <<41526, 17485>>, <<63454, 29397>>, <<10293, 63514>>, <<2119, 42022>>,
  <<50978, 43082>>, <<37125, 40391>>, <<46342, 35627>>, <<56283, 53734>>, <<61187, 56470>>, <<39913, 24636>>, <<36242, 43347>>, <<47949, 6355>>,
  <<55618, 51363>>, <<55471, 33583>>, <<2738, 46953>>, <<23114, 47457>>, <<17540, 55570>>, <<11908, 59472>>, <<44387, 38718>>, <<15330, 41253>>,
  <<64353, 15566>>, <<691, 8338>>, <<50314, 34567>>, <<44555, 54445>>, <<53386, 64959>>, <<1263, 28610>>, <<13565, 31419>>, <<19779, 9973>>,
  <<53002, 61777>>, <<14458, 11754>>, <<45747, 33177>>, <<17524, 14968>>, <<39985, 50160>>, <<55428, 26131>>, <<29934, 59903>>, <<31323, 24273>>,
  <<39052, 31347>>, <<37101, 14936>>, <<14124, 63177>>, <<6345, 31597>>, <<17098, 18413>>, <<29398, 7671>>, <<20320, 35317>>, <<19990, 12698>>,
  <<1452, 46835>>, <<35020, 46458>>, <<19682, 3471>>, <<54704, 61615>>, <<50129, 49076>>, <<10100, 65043>>, <<49726, 50841>>, <<53452, 16163>>,
  <<19207, 15135>>, <<23377, 26602>>, <<36643, 18554>>, <<15505, 44881>>, <<53949, 3646>>, <<7877, 55950>>, <<5574, 16894>>, <<16866, 18137>>,
  <<26889, 580>>, <<48750, 31589>>, <<26016, 25959>>, <<18167, 35825>>, <<36568, 10731>>, <<30542, 5146>>, <<48412, 7362>>, <<33936, 46854>>,
  <<57466, 41066>>, <<30122, 38473>>, <<58349, 29760>>, <<8271, 24759>>, <<32157, 40679>>, <<65061, 64205>>, <<16147, 34017>>, <<27200, 36831>>,
  <<39017, 5093>>, <<61809, 16454>>, <<41016, 28529>>, <<21515, 30526>>, <<3729, 61494>>, <<22326, 4258>>, <<44011, 50664>>, <<11470, 14128>>,
  <<29445, 18270>>, <<51250, 53046>>, <<54092, 42588>>, <<26686, 56889>>, <<6017, 51603>>, <<56566, 20207>>, <<23492, 39858>>, <<34844, 49219>>,
  <<32473, 17478>>, <<39553, 11745>>, <<37972, 55742>>, <<18128, 55014>>, <<20783, 10133>>, <<46970, 52293>>, <<12737, 62226>>, <<47257, 39515>>,
  <<23115, 35432>>, <<8750, 58977>>, <<12712, 57687>>, <<18150, 30678>>, <<17483, 36798>>, <<15879, 23559>>, <<5132, 45114>>, <<37844, 49812>>,
  <<44684, 57891>>, <<28282, 58745>>, <<33961, 22692>>, <<17038, 60970>>, <<50871, 60182>>, <<18353, 56792>>, <<50110, 14465>>, <<48115, 48125>>,
  <<4924, 44928>>, <<45571, 33273>>, <<62778, 56051>>, <<62033, 30146>>, <<9151, 39705>>, <<51638, 14058>>, <<56149, 29924>>, <<44152, 39509>>,
  <<65510, 61971>>, <<14684, 50492>>, <<61552, 26466>>, <<46684, 35448>>, <<12168, 59738>>, <<38311, 12554>>, <<38862, 30108>>, <<46533, 36065>>,
  <<63922, 34455>>, <<46872, 57543>>, <<24639, 56304>>, <<46905, 5728>>, <<1563, 43008>>, <<2201, 11775>>, <<57643, 28311>>, <<38105, 58296>>,
  <<23835, 44945>>, <<27281, 44516>>, <<61997, 49701>>, <<35426, 63091>>, <<65205, 43501>>, <<36805, 59349>>, <<26846, 50922>>, <<4451, 52591>>,
  <<64418, 18247>>, <<26695, 65482>>, <<6912, 8062>>, <<19977, 17932>>, <<35654, 18345>>, <<29375, 39132>>, <<60573, 177>>, <<42637, 48536>>,
  <<45987, 5042>>, <<64409, 40385>>, <<22719, 33457>>, <<33825, 28987>>, <<52616, 14337>>, <<1091, 31390>>, <<25753, 27187>>, <<18614, 2509>>,
  <<30266, 57588>>, <<51290, 19070>>, <<37773, 49163>>, <<45345, 28644>>, <<23356, 65247>>, <<49317, 37908>>, <<41370, 22450>>, <<888, 48056>>,
  <<36401, 65161>>, <<32629, 34435>>, <<14359, 47233>>, <<25588, 61386>>, <<44288, 14949>>, <<48330, 14498>>, <<4541, 20316>>, <<4686, 58244>>,
  <<37613, 36262>>, <<64646, 47378>>, <<12932, 62824>>, <<37847, 20863>>, <<25145, 8059>>, <<51718, 5035>>, <<14969, 19105>>, <<26505, 34909>>,
  <<32382, 11600>>, <<32940, 13058>>, <<13727, 60245>>, <<39010, 51357>>, <<37747, 31674>>, <<20846, 58634>>, <<49155, 18607>>, <<31452, 17188>>,
  <<19198, 38065>>, <<60716, 27399>>, <<43886, 1768>>, <<53723, 21053>>, <<37309, 14386>>, <<53179, 59667>>, <<38299, 62301>>, <<15348, 210>>,
  <<4045, 13125>>, <<38715, 26556>>, <<50124, 63054>>, <<63747, 58711>>, <<16966, 29219>>, <<44674, 47025>>, <<38525, 5730>>, <<3677, 45522>>,
  <<28440, 34197>>, <<17386, 37557>>, <<383, 51141>>, <<39138, 54830>>, <<17565, 19713>>, <<57231, 40432>>, <<19775, 35510>>, <<24897, 30768>>,
  <<55861, 50129>>, <<43536, 14617>>, <<7461, 25288>>, <<7053, 31253>>, <<55310, 9346>>, <<3941, 35728>>, <<5106, 55689>>, <<12108, 40031>>,
  <<5688, 16315>>, <<11289, 50807>>, <<61657, 10692>>, <<57378, 9813>>, <<61707, 14866>>, <<39030, 6990>>, <<32947, 31393>>, <<14021, 57201>>,
  <<54633, 29961>>, <<60093, 20688>>, <<26254, 45114>>, <<8725, 64753>>, <<62580, 31148>>, <<9710, 10798>>, <<61913, 39824>>, <<7797, 22590>>,
  <<40542, 11237>>, <<31388, 2369>>, <<38177, 52317>>, <<6614, 21278>>, <<16391, 50633>>, <<4292, 41301>>, <<36647, 50203>>, <<17562, 25615>>,
  <<20832, 41431>>, <<3462, 61641>>, <<39110, 61876>>, <<5475, 48403>>, <<58188, 20328>>, <<17110, 62746>>, <<44963, 43756>>, <<23427, 42508>>,
  <<24747, 46359>>, <<23572, 23061>>, <<13761, 57989>>, <<47169, 52230>>, <<22845, 33988>>, <<38759, 20594>>, <<646, 34664>>, <<13955, 34609>>,
  <<44195, 22404>>, <<27558, 4962>>, <<35874, 64881>>, <<42065, 58174>>, <<28998, 28385>>, <<56290, 37330>>, <<57902, 30201>>, <<45612, 1143>>,
  <<65123, 7830>>, <<19647, 50041>>, <<44369, 146>>, <<12167, 61085>>, <<59053, 37096>>, <<48165, 29047>>, <<12275, 37994>>, <<12298, 49125>>,
  <<53008, 23348>>, <<65177, 25976>>, <<36442, 16045>>, <<16198, 27518>>, <<47910, 2066>>, <<47327, 63222>>, <<42659, 52180>>, <<12931, 719>>,
  <<12900, 63895>>, <<52864, 10555>>, <<25880, 18343>>, <<35946, 26786>>, <<28365, 26676>>, <<42351, 9240>>, <<17453, 52408>>, <<60526, 28995>>,
  <<47926, 45776>>, <<62922, 13182>>, <<29194, 11563>>, <<56362, 24716>>, <<26884, 19095>>, <<53631, 50809>>, <<31907, 25458>>, <<17673, 29111>>,
  <<26785, 55960>>, <<29574, 51611>>, <<26896, 18913>>, <<23598, 29219>>, <<57948, 12522>>, <<51827, 37862>>, <<42043, 32495>>, <<6627, 44415>>,
  <<44097, 19833>>, <<33342, 64403>>, <<35530, 43857>>, <<39923, 34820>>, <<36023, 24346>>, <<63565, 8525>>, <<2642, 43970>>, <<271, 12360>>,
  <<55079, 46818>>, <<5242, 59654>>, <<30786, 65121>>, <<42771, 3763>>, <<14949, 14520>>, <<36655, 15784>>, <<58879, 46787>>, <<27132, 12024>>,
  <<43861, 28505>>, <<8020, 51115>>, <<63389, 25012>>, <<7964, 15579>>, <<3668, 5017>>, <<61164, 10598>>, <<52987, 4539>>, <<11399, 59855>>,
  <<51948, 41611>>, <<10517, 32013>>, <<37261, 14254>>, <<19685, 4433>>, <<13728, 21542>>, <<8056, 41721>>, <<1542, 30069>>, <<31034, 9001>>,
  <<55458, 15859>>, <<35252, 37547>>, <<13623, 51131>>, <<6162, 10558>>, <<14530, 30447>>, <<41984, 15449>>, <<5891, 28671>>, <<15202, 12006>>,
  <<63551, 63332>>, <<57150, 6625>>, <<28852, 44477>>, <<59747, 13101>>, <<40639, 32898>>, <<45541, 37896>>, <<37051, 38113>>, <<16602, 41462>>,
  <<46683, 4332>>, <<16750, 10985>>, <<54891, 50995>>, <<63902, 21315>>, <<16094, 43807>>, <<61604, 71>>, <<26404, 48595>>, <<46088, 7285>>,
  <<26300, 13367>>, <<46923, 18690>>, <<32326, 42716>>, <<19018, 63811>>, <<22273, 5739>>, <<7729, 23492>>, <<61612, 33906>>, <<47559, 46251>>,
  <<2144, 15076>>, <<65321, 4292>>, <<21525, 5437>>, <<57156, 18621>>, <<40495, 22257>>, <<39526, 42903>>, <<58233, 56777>>, <<59567, 4901>>,
  <<30120, 61874>>, <<65054, 26840>>, <<17920, 7818>>, <<44454, 14322>>, <<65347, 17113>>, <<59800, 6181>>, <<20356, 23529>>, <<21898, 17675>>,
  <<14304, 44312>>, <<12093, 5076>>, <<34896, 64885>>, <<63623, 2802>>, <<30274, 40699>>, <<11822, 38035>>, <<39634, 40577>>, <<13316, 7850>>,
  <<350, 45314>>, <<55813, 28279>>, <<6941, 105>>, <<16814, 32512>>, <<59602, 54979>>, <<33846, 38251>>, <<37052, 5826>>, <<36908, 38226>>,
  <<43291, 6914>>, <<18810, 23805>>, <<4289, 2036>>, <<28043, 59775>>, <<12384, 21568>>, <<13380, 30655>>, <<9479, 46835>>, <<38993, 18525>>,
  <<44480, 11703>>, <<4350, 37987>>, <<49998, 13609>>, <<35283, 25571>>, <<15853, 9391>>, <<4645, 38467>>, <<65350, 23714>>, <<43738, 15732>>,
  <<50167, 324>>, <<3672, 44468>>, <<41481, 14373>>, <<5600, 44612>>, <<61074, 54611>>, <<56657, 62233>>, <<22816, 38624>>, <<59011, 15495>>,
  <<28107, 59120>>, <<36620, 12624>>, <<62694, 62402>>, <<61560, 17656>>, <<57490, 10465>>, <<49294, 53087>>, <<64169, 49300>>, <<27760, 40400>>,
  <<56517, 50455>>, <<19934, 30684>>, <<44197, 55658>>, <<42088, 46564>>, <<46644, 18980>>, <<59216, 5705>>, <<63639, 65427>>, <<42375, 46075>>,
  <<12668, 12709>>, <<48541, 33507>>, <<16727, 43716>>, <<26549, 7443>>, <<29402, 18075>>, <<40544, 21504>>, <<10237, 11787>>, <<8670, 18135>>,
  <<5704, 61794>>, <<55741, 31420>>, <<58766, 33228>>, <<19086, 6751>>, <<42923, 38783>>, <<64815, 26543>>, <<41642, 8358>>, <<25132, 21425>>,
  <<6994, 62209>>, <<23795, 61607>>, <<25300, 60721>>, <<48516, 13679>>, <<8751, 47792>>, <<53920, 8200>>, <<25712, 43462>>, <<23033, 26756>>,
  <<44930, 46060>>, <<48583, 59130>>, <<23419, 12148>>, <<49659, 53565>>, <<51004, 231>>, <<12630, 43375>>, <<51041, 31767>>, <<20480, 57102>>,
  <<39056, 59443>>, <<47366, 9707>>, <<64150, 14217>>, <<43303, 41376>>, <<29906, 40858>>, <<46558, 49550>>, <<48946, 48439>>, <<8975, 50745>>,
  <<45861, 22331>>, <<52962, 46541>>, <<11692, 2782>>, <<61193, 5962>>, <<24975, 51313>>, <<16556, 63206>>, <<48870, 54870>>, <<24480, 32347>>,
  <<50421, 22160>>, <<55649, 20974>>, <<60504, 42097>>, <<50200, 47593>>, <<53748, 6480>>, <<32292, 39638>>, <<709, 63068>>, <<34438, 58275>>,
  <<57157, 12492>>, <<52281, 50701>>, <<46676, 62955>>, <<38935, 57545>>, <<32002, 50305>>, <<18546, 2460>>, <<2485, 62796>>, <<1670, 57864>>,
  <<39467, 39650>>, <<10249, 22129>>, <<43267, 13702>>, <<59126, 25836>>, <<43038, 22018>>, <<8150, 48483>>, <<13278, 54930>>, <<12116, 63398>>,
  <<5880, 35830>>, <<18888, 12324>>, <<4983, 18966>>, <<439, 13744>>, <<46707, 64512>>, <<38114, 41616>>, <<16775, 17227>>, <<49248, 7943>>,
  <<50035, 57758>>, <<1223, 24887>>, <<56039, 52572>>, <<32697, 38075>>, <<3362, 52161>>, <<33722, 17133>>, <<53063, 51319>>, <<4564, 59549>>,
  <<21530, 58174>>, <<48721, 12063>>, <<23765, 58299>>, <<33642, 19922>>, <<14573, 25938>>, <<8112, 35181>>, <<511, 25928>>, <<14208, 2970>>,
  <<10260, 53909>>, <<18038, 28143>>, <<40016, 13717>>, <<29443, 51500>>, <<41154, 44318>>, <<4869, 9446>>, <<65048, 55707>>, <<135, 44153>>,
  <<25736, 57788>>, <<7490, 28834>>, <<2419, 58012>>, <<21086, 40051>>, <<34558, 44293>>, <<31132, 4195>>, <<53756, 61519>>, <<32449, 62478>>,
  <<29193, 26703>>, <<59585, 16146>>, <<61129, 38609>>, <<4853, 63964>>, <<26122, 7078>>, <<26114, 61955>>, <<31889, 49120>>, <<53210, 43554>>,
  <<1884, 8264>>, <<5551, 24277>>, <<48754, 26408>>, <<19814, 42035>>, <<54476, 24198>>, <<53484, 31917>>, <<54608, 13378>>, <<40367, 14763>>,
  <<47952, 56600>>, <<7648, 25203>>, <<41400, 20306>>, <<36517, 14618>>, <<43890, 59082>>, <<5910, 53000>>, <<65488, 22100>>, <<51058, 24028>>,
  <<26802, 20738>>, <<18655, 31528>>, <<58362, 45853>>, <<22083, 13389>>, <<48012, 21455>>, <<51995, 17847>>, <<12876, 22754>>, <<38244, 41600>>,
  <<30323, 56156>>, <<11597, 55582>>, <<61767, 51913>>, <<2944, 30565>>, <<53221, 46087>>, <<59164, 32005>>, <<62413, 22354>>, <<7890, 48996>>,
  <<36500, 62075>>, <<22957, 1713>>, <<61351, 808>>, <<47907, 11985>>, <<19087, 16803>>, <<31778, 32756>>, <<64598, 53674>>, <<477, 17046>>,
  <<48884, 7505>>, <<21152, 65337>>, <<40081, 35833>>, <<60470, 48377>>, <<38814, 45760>>, <<48419, 55879>>, <<8137, 21871>>, <<21304, 18161>>,
  <<55669, 1200>>, <<20204, 30838>>, <<29256, 8007>>, <<23683, 50034>>, <<21562, 50431>>, <<59594, 14529>>, <<62014, 15599>>, <<45483, 17639>>,
  <<10147, 39727>>, <<43105, 3721>>, <<26174, 20629>>, <<28725, 36755>>, <<47558, 10285>>, <<48926, 34331>>, <<46524, 10791>>, <<17681, 11243>>,
  <<48069, 9838>>, <<8066, 8216>>, <<4921, 47699>>, <<11370, 58806>>, <<4380, 8424>>, <<285, 16242>>, <<59672, 19325>>, <<31974, 57830>>,
  <<39983, 48286>>, <<135, 62848>>, <<37116, 64900>>, <<1890, 555>>, <<10543, 17113>>, <<34521, 43914>>, <<49708, 59296>>, <<11254, 65390>>,
  <<15034, 58460>>, <<55081, 36611>>, <<11694, 56314>>, <<57974, 30207>>, <<17854, 50694>>, <<17919, 49128>>, <<33397, 24570>>, <<61389, 42951>>,
  <<44888, 54447>>, <<25604, 33829>>, <<13627, 17232>>, <<43069, 40990>>, <<20544, 29964>>, <<61330, 9688>>, <<7201, 30813>>, <<49079, 59661>>,
  <<26566, 61957>>, <<59186, 42714>>, <<62732, 47637>>, <<58202, 6868>>, <<58213, 13993>>, <<43116, 8058>>, <<9978, 63722>>, <<52235, 42858>>,
  <<3700, 50802>>, <<26097, 60172>>, <<60598, 19905>>, <<26549, 39495>>, <<27607, 7859>>, <<64796, 47183>>, <<13456, 64760>>, <<22241, 50573>>,
  <<42694, 51610>>, <<15418, 38057>>, <<56121, 17950>>, <<6817, 59342>>, <<12584, 51942>>, <<9220, 37876>>, <<28283, 35192>>, <<10905, 22195>>,
  <<59315, 11400>>, <<23850, 27823>>, <<11214, 421>>, <<41811, 52449>>, <<18660, 47836>>, <<50974, 51244>>, <<5874, 25770>>, <<3088, 1704>>,
  <<63613, 3167>>, <<64632, 50614>>, <<33077, 32407>>, <<7967, 11027>>, <<37375, 55554>>, <<39134, 6424>>, <<43532, 23250>>, <<41761, 27463>>,
  <<11386, 24576>>, <<920, 4439>>, <<11102, 28651>>, <<19749, 42361>>, <<56511, 60134>>, <<21288, 6871>>, <<33503, 6329>>, <<30541, 2917>>,
  <<8314, 29373>>, <<24394, 669>>, <<59883, 7006>>, <<6623, 54794>>, <<43235, 22283>>, <<48131, 40050>>, <<37572, 40072>>, <<7641, 56255>>,
  <<62630, 22540>>, <<23215, 26702>>, <<1736, 56606>>, <<8099, 30869>>, <<20121, 18364>>, <<18067, 59824>>, <<35969, 55238>>, <<60792, 61329>>,
  <<33938, 50353>>, <<39162, 12517>>, <<58938, 11661>>, <<19896, 7625>>, <<64335, 41910>>, <<19863, 27675>>, <<11786, 34343>>, <<21949, 12184>>,
  <<53221, 30331>>, <<11413, 7447>>, <<41591, 49485>>, <<6210, 62712>>, <<23524, 15083>>, <<58110, 11034>>, <<17380, 60421>>, <<7676, 43167>>,
  <<38299, 53175>>, <<15860, 17956>>, <<43960, 21738>>, <<42291, 52247>>, <<4178, 33774>>, <<36554, 7124>>, <<65380, 1226>>, <<23020, 5316>>,
  <<32333, 11029>>, <<57669, 47103>>, <<33331, 14278>>, <<31357, 44537>>, <<34502, 7>>, <<52514, 60804>>, <<25229, 10985>>, <<56792, 35989>>,
  <<3870, 32551>>, <<56653, 40784>>, <<31240, 54308>>, <<16159, 47535>>, <<45463, 59996>>, <<16356, 56586>>, <<15664, 40220>>, <<54396, 16922>>,
  <<20746, 61045>>, <<62097, 59>>, <<31149, 42768>>, <<48211, 5559>>, <<21388, 31313>>, <<3017, 57894>>, <<43536, 24069>>, <<19506, 4621>>,
  <<35326, 39143>>, <<16131, 22747>>, <<59102, 55889>>, <<39048, 59573>>, <<5364, 10429>>, <<62124, 6397>>, <<21535, 9821>>, <<28480, 39185>>,
  <<65277, 56524>>, <<11124, 11214>>, <<228, 48810>>, <<26209, 36886>>, <<21474, 59445>>, <<34153, 14430>>, <<21954, 9240>>, <<14623, 13395>>,
  <<1222, 23932>>, <<62549, 51815>>, <<17591, 19917>>, <<16404, 62907>>, <<26935, 63888>>, <<28082, 53842>>, <<25680, 26172>>, <<1243, 51326>>,
  <<54874, 34718>>, <<18777, 5337>>, <<63999, 40336>>, <<60961, 43625>>, <<46130, 52753>>, <<65337, 38074>>, <<3799, 61354>>, <<25074, 49345>>,
  <<36179, 12231>>, <<16899, 21878>>, <<60833, 37499>>, <<32643, 19209>>, <<31980, 64420>>, <<14359, 46128>>, <<17357, 34971>>, <<28760, 16817>>,
  <<37634, 9666>>, <<29684, 16623>>, <<54266, 31903>>, <<6865, 35706>>, <<56909, 4246>>, <<38468, 19978>>, <<62948, 61332>>, <<18477, 40842>>,
  <<46853, 12189>>, <<60819, 63283>>, <<46583, 54834>>, <<44618, 3039>>, <<41323, 43020>>, <<27530, 28488>>, <<60914, 27741>>, <<5325, 12619>>,
  <<47721, 63639>>, <<57142, 57060>>, <<44686, 53173>>, <<17984, 38240>>, <<55681, 39655>>, <<1718, 64799>>, <<48281, 14897>>, <<11915, 56581>>,
  <<23972, 37280>>, <<12299, 29582>>, <<31627, 21209>>, <<60738, 64274>>, <<44806, 56872>>, <<47682, 25040>>, <<22107, 36454>>, <<53920, 36180>>,
  <<56563, 10370>>, <<35704, 59374>>, <<36230, 7149>>, <<47265, 30071>>, <<16628, 29948>>, <<51361, 56113>>, <<33900, 33424>>, <<21743, 60015>>,
  <<54261, 36589>>, <<14607, 11173>>, <<14695, 53948>>, <<51806, 28812>>, <<17583, 18342>>, <<33601, 8131>>, <<41628, 23951>>, <<19181, 50628>>,
  <<52407, 5646>>, <<12387, 61709>>, <<54475, 12805>>, <<20346, 2993>>, <<24716, 36736>>, <<5218, 55247>>, <<18390, 19413>>, <<41246, 15401>>,
  <<32199, 60939>>, <<29078, 38724>>, <<47680, 8101>>, <<59296, 25236>>, <<40125, 22249>>, <<20065, 27885>>, <<47470, 51459>>, <<35710, 21044>>,
  <<55998, 62659>>, <<48906, 50581>>, <<51565, 17167>>, <<60531, 44827>>, <<5930, 55639>>, <<16846, 52427>>, <<52922, 64599>>, <<39915, 58831>>,
  <<34154, 753>>, <<11225, 34033>>, <<52504, 28515>>, <<62407, 32997>>, <<59672, 3483>>, <<32962, 31528>>, <<13751, 33165>>, <<47227, 10922>>,
  <<23405, 63516>>, <<37747, 63816>>, <<7438, 51678>>, <<22562, 6172>>, <<19844, 40869>>, <<20096, 15525>>, <<44742, 32900>>, <<23335, 49928>>,
  <<3034, 22375>>, <<18967, 29507>>, <<36251, 57858>>, <<28863, 5964>>, <<52098, 19418>>, <<39533, 15665>>, <<4371, 62145>>, <<32134, 41866>>,
  <<39083, 36653>>, <<924, 26281>>, <<13699, 62717>>, <<46132, 6053>>, <<52090, 58347>>, <<98, 12968>>, <<50721, 55970>>, <<55291, 4548>>,
  <<38592, 13296>>, <<38417, 42838>>, <<13241, 36367>>, <<35526, 63661>>, <<35058, 5252>>, <<44783, 53679>>, <<2432, 10389>>, <<32660, 41785>>,
  <<24829, 2316>>, <<17461, 27902>>, <<48223, 18637>>, <<2313, 12022>>, <<61047, 52311>>, <<8834, 21540>>, <<24514, 7852>>, <<39174, 21406>>,
  <<34956, 12968>>, <<25345, 34616>>, <<53315, 30318>>, <<39928, 14151>>, <<4663, 33761>>, <<7754, 47971>>, <<56902, 26914>>, <<529, 25287>>,
  <<59262, 17207>>, <<47551, 48949>>, <<3563, 31598>>, <<63184, 61579>>, <<30552, 13611>>, <<64957, 6049>>, <<15345, 9182>>, <<13393, 57562>>,
  <<59009, 43720>>, <<63687, 31027>>, <<61645, 331>>, <<18578, 51721>>, <<3590, 18405>>, <<63457, 8131>>, <<40528, 30570>>, <<23772, 58764>>,
  <<43625, 48994>>, <<27590, 20580>>, <<43940, 61146>>, <<47630, 43504>>, <<30143, 11028>>, <<30791, 35088>>, <<44656, 56848>>, <<47940, 65177>>,
  <<14852, 57051>>, <<50870, 26338>>, <<17527, 15942>>, <<33345, 18641>>, <<17598, 60231>>, <<17040, 9852>>, <<60346, 15164>>, <<50933, 3520>>,
  <<35763, 30791>>, <<15378, 25702>>, <<22043, 40503>>, <<33185, 41269>>, <<7597, 15301>>, <<35136, 48814>>, <<65474, 3275>>, <<42217, 56269>>,
  <<26248, 62441>>, <<53428, 21378>>, <<32966, 43170>>, <<22892, 1780>>, <<20071, 44270>>, <<5190, 55470>>, <<26338, 3839>>, <<57661, 38600>>,
  <<49445, 16755>>, <<47762, 53022>>, <<53537, 25613>>, <<44971, 1498>>, <<26952, 42407>>, <<6493, 40432>>, <<59613, 15055>>, <<34846, 8012>>,
  <<31449, 38162>>, <<61902, 2990>>, <<24089, 32655>>, <<18376, 3197>>, <<14367, 610>>, <<33464, 33449>>, <<61195, 5038>>, <<31584, 52896>>,
  <<53623, 19692>>, <<53656, 65258>>, <<50270, 13380>>, <<40252, 59212>>, <<2143, 13956>>, <<7930, 45525>>, <<52702, 34612>>, <<58370, 59633>>,
  <<34756, 24369>>, <<4783, 55265>>, <<24887, 1638>>, <<4175, 26304>>, <<10130, 28891>>, <<17788, 16743>>, <<1417, 15986>>, <<21200, 29049>>,
  <<6893, 20585>>, <<63668, 5035>>, <<61234, 10586>>, <<2862, 11753>>, <<43935, 19121>>, <<25127, 38451>>, <<22129, 51896>>, <<32991, 41935>>,
  <<25464, 41044>>, <<60581, 37666>>, <<16160, 5016>>, <<40482, 57455>>, <<16397, 893>>, <<60948, 17421>>, <<13010, 43675>>, <<19776, 44821>>,
  <<58277, 29045>>, <<2642, 17865>>, <<19330, 8150>>, <<40878, 36370>>, <<38398, 1142>>, <<27012, 25069>>, <<23327, 21055>>, <<30731, 24106>>,
  <<17187, 39050>>, <<3574, 17498>>, <<31337, 11860>>, <<34752, 3959>>, <<11052, 8435>>, <<2331, 60706>>, <<34586, 58571>>, <<59025, 57684>>,
  <<26560, 40270>>, <<28555, 49165>>, <<25467, 30856>>, <<39933, 46540>>, <<18949, 38143>>, <<53833, 40232>>, <<59114, 59324>>, <<7788, 54871>>,
  <<44021, 42727>>, <<61922, 1212>>, <<14580, 30892>>, <<18263, 47495>>, <<32600, 36764>>, <<49397, 39924>>, <<41778, 10374>>, <<50330, 26333>>,
  <<33901, 31090>>, <<46643, 14914>>, <<41998, 27936>>, <<126, 45293>>, <<11996, 47212>>, <<64788, 5152>>, <<5687, 54197>>, <<58458, 44160>>,
  <<7535, 45736>>, <<11688, 53348>>, <<1942, 55755>>, <<57408, 38573>>, <<63029, 46162>>, <<54144, 58283>>, <<60457, 55159>>, <<9409, 58426>>,
  <<705, 60511>>, <<14136, 65527>>, <<9649, 32266>>, <<15948, 613>>, <<38879, 50949>>, <<44616, 38868>>, <<49885, 12169>>, <<58005, 8688>>,
  <<30031, 25421>>, <<2225, 19839>>, <<1389, 50348>>, <<31091, 35542>>, <<23041, 32189>>, <<41832, 7563>>, <<60737, 19130>>, <<42404, 7430>>,
  <<39360, 49400>>, <<51611, 20578>>, <<26822, 29459>>, <<10858, 62142>>, <<54519, 64513>>, <<40691, 29508>>, <<44879, 21953>>, <<43579, 21658>>,
  <<60025, 28275>>, <<9840, 17085>>, <<30938, 6301>>, <<50357, 37893>>, <<57281, 59849>>, <<53137, 20389>>, <<2738, 19772>>, <<41233, 24460>>,
  <<35846, 24784>>, <<17798, 40823>>, <<61938, 51174>>, <<9750, 54899>>, <<32812, 36365>>, <<4842, 23819>>, <<53487, 16745>>, <<64974, 61771>>,
  <<61908, 60977>>, <<21782, 13647>>, <<25690, 52643>>, <<6190, 30051>>, <<14413, 4833>>, <<50096, 8682>>, <<12910, 48107>>, <<20716, 21282>>,
  <<33906, 5845>>, <<29417, 2816>>, <<38863, 63277>>, <<28487, 49116>>, <<31252, 53181>>, <<64586, 3671>>, <<5643, 56246>>, <<51854, 50760>>,
  <<8460, 14302>>, <<7197, 2661>>, <<39838, 23219>>, <<35121, 46050>>, <<24925, 15916>>, <<11866, 1050>>, <<56073, 56861>>, <<51566, 13209>>,
  <<35761, 16825>>, <<58981, 33025>>, <<64575, 1470>>, <<31942, 57247>>, <<34136, 28618>>, <<39991, 41403>>, <<39054, 35989>>, <<37112, 49663>>,
  <<27223, 28366>>, <<24067, 39090>>, <<54630, 43223>>, <<56212, 62966>>, <<30849, 39962>>, <<4192, 62177>>, <<56729, 53700>>, <<43385, 61191>>,
  <<1841, 14079>>, <<18555, 6959>>, <<35823, 19074>>, <<64638, 31765>>, <<9330, 46097>>, <<9006, 7025>>, <<39625, 52616>>, <<16793, 15211>>,
  <<16119, 5799>>, <<9626, 31037>>, <<60299, 61662>>, <<24937, 12329>>, <<48131, 22121>>, <<21491, 46452>>, <<26669, 1915>>, <<1399, 20075>>,
  <<4274, 42031>>, <<61607, 41569>>, <<19614, 42593>>, <<3406, 36705>>, <<25515, 58623>>, <<12760, 23746>>, <<35792, 25744>>, <<48863, 55573>>,
  <<7641, 49872>>, <<44194, 10469>>, <<4498, 54632>>, <<58733, 48804>>, <<16266, 32387>>, <<29993, 148>>, <<3773, 13518>>, <<59738, 57078>>,
  <<15171, 54225>>, <<12921, 4347>>, <<34912, 32357>>, <<60567, 20027>>, <<123, 1173>>, <<55505, 55582>>, <<59818, 7634>>, <<16973, 14082>>,
  <<32437, 50457>>, <<11874, 57242>>, <<30571, 4600>>, <<34424, 47362>>, <<21682, 11429>>, <<10623, 60476>>, <<15421, 18193>>, <<51633, 31350>>,
  <<36899, 19699>>, <<23999, 45841>>, <<61754, 24314>>, <<14001, 49826>>, <<15616, 65434>>, <<56601, 40590>>, <<4314, 37620>>, <<35911, 42216>>,
  <<23205, 53874>>, <<10310, 38809>>, <<6616, 14771>>, <<40747, 60167>>, <<54766, 64032>>, <<42653, 14038>>, <<38742, 23004>>, <<4161, 58198>>,
  <<55606, 56671>>, <<15945, 53322>>, <<3727, 22894>>, <<26636, 16387>>, <<48106, 37854>>, <<49967, 10067>>, <<17209, 31586>>, <<35796, 10023>>,
  <<51, 62789>>, <<14732, 53500>>, <<59975, 55841>>, <<54626, 15547>>, <<27857, 12953>>, <<64173, 34972>>, <<2120, 9315>>, <<9480, 30411>>,
  <<6772, 43972>>, <<28234, 39645>>, <<65027, 21004>>, <<33064, 49956>>, <<37771, 10048>>, <<20071, 21824>>, <<63521, 31452>>, <<37707, 29091>>,
  <<17986, 38475>>, <<28168, 13117>>, <<32264, 11420>>, <<29222, 63058>>, <<34580, 35942>>, <<60461, 59842>>, <<53894, 62348>>, <<25688, 10377>>,
  <<11233, 47675>>, <<17700, 44391>>, <<36252, 41781>>, <<11387, 32>>, <<247, 32074>>, <<46333, 51056>>, <<62587, 43431>>, <<26283, 59237>>,
  <<18058, 21145>>, <<33641, 37809>>, <<28684, 21727>>, <<10444, 22682>>, <<48536, 46180>>, <<54555, 3563>>, <<17743, 10684>>, <<14244, 65168>>,
  <<10595, 62316>>, <<60609, 51240>>, <<33025, 11150>>, <<33526, 37268>>, <<53334, 33463>>, <<5123, 19104>>, <<43974, 21687>>, <<52120, 30462>>,
  <<11725, 56435>>, <<64884, 5811>>, <<60786, 10972>>, <<17589, 59112>>, <<26777, 57263>>, <<48115, 52413>>, <<65356, 43991>>, <<55422, 13673>>,
  <<41749, 2219>>, <<35260, 41354>>, <<51302, 58305>>, <<54631, 48317>>, <<61688, 30936>>, <<6269, 35266>>, <<22251, 46128>>, <<9991, 19304>>,
  <<47345, 44563>>, <<13266, 7936>>, <<30830, 4817>>, <<12363, 3155>>, <<24568, 25782>>, <<26501, 39005>>, <<49913, 59243>>, <<52599, 41545>>,
  <<4195, 8657>>, <<55577, 35842>>, <<1587, 62032>>, <<64870, 2956>>, <<1608, 24422>>, <<9386, 18621>>, <<25958, 39394>>, <<4887, 9790>>,
  <<35488, 40481>>, <<64640, 50273>>, <<35011, 15754>>, <<51386, 33272>>, <<31115, 32744>>, <<43466, 53484>>, <<34301, 51101>>, <<59827, 25936>>,
  <<61793, 54490>>, <<2236, 14767>>, <<23773, 21781>>, <<19342, 48648>>, <<29776, 38391>>, <<25725, 4734>>, <<29305, 44139>>, <<25812, 6391>>,
  <<60909, 48619>>, <<33590, 11743>>, <<42619, 13057>>, <<45739, 24108>>, <<10212, 62344>>, <<28055, 49393>>, <<40445, 4630>>, <<35119, 47536>>,
  <<60211, 26880>>, <<7771, 64931>>, <<25766, 28150>>, <<64407, 38020>>, <<17250, 61288>>, <<27513, 2537>>, <<52844, 58531>>, <<38687, 44945>>,
  <<29248, 47653>>, <<48627, 54240>>, <<16178, 41124>>, <<55534, 2456>>, <<2377, 4566>>, <<23990, 39643>>, <<45839, 48824>>, <<61604, 54019>>,
  <<52783, 45224>>, <<50147, 47860>>, <<36162, 60819>>, <<58033, 47895>>, <<31050, 63176>>, <<2129, 9279>>, <<62133, 30191>>, <<11987, 23561>>,
  <<63907, 15976>>, <<24443, 58646>>, <<7525, 4854>>, <<41332, 57199>>, <<25053, 25248>>, <<39478, 42436>>, <<15577, 31797>>, <<7158, 1615>>,
  <<44237, 34047>>, <<63439, 19021>>, <<49205, 12873>>, <<49608, 63875>>, <<44315, 59525>>, <<39566, 14403>>, <<51669, 6369>>, <<22233, 17184>>,
  <<32903, 2938>>, <<36920, 28803>>, <<7378, 36708>>, <<53045, 42974>>, <<13145, 32484>>, <<45715, 18637>>, <<14637, 59263>>, <<32284, 53528>>,
  <<49093, 977>>, <<10235, 27392>>, <<40898, 57219>>, <<10175, 25546>>, <<31512, 43234>>, <<56763, 11664>>, <<43509, 17363>>, <<22645, 44453>>,
  <<27076, 59334>>, <<47868, 21693>>, <<20393, 27813>>, <<13895, 19146>>, <<50356, 1696>>, <<27079, 57319>>, <<8692, 6737>>, <<3822, 7793>>,
  <<25207, 18750>>, <<11977, 48345>>, <<61370, 30396>>, <<46967, 16533>>, <<54697, 23348>>, <<17047, 57066>>, <<34608, 25417>>, <<47038, 12737>>,
  <<18256, 33991>>, <<30599, 13249>>, <<29821, 19271>>, <<63299, 17466>>, <<4275, 36840>>, <<27606, 59908>>, <<36160, 31958>>, <<16277, 9817>>,
  <<9870, 37693>>, <<51283, 56723>>, <<18442, 49557>>, <<4884, 36367>>, <<58888, 47301>>, <<45332, 14186>>, <<62988, 4157>>, <<24190, 6956>>,
  <<11738, 30356>>, <<60923, 9726>>, <<52251, 55178>>, <<6447, 54531>>, <<47421, 55698>>, <<931, 29799>>, <<31579, 39952>>, <<39908, 248>>,
  <<2729, 31388>>, <<58849, 13336>>, <<22208, 59434>>, <<6441, 25140>>, <<2659, 3339>>, <<34117, 6585>>, <<29052, 9903>>, <<55081, 51848>>,
  <<34284, 13879>>, <<1685, 35276>>, <<31993, 10433>>, <<43525, 36043>>, <<32168, 31176>>, <<37818, 48330>>, <<65097, 36544>>, <<32885, 49516>>,
  <<34038, 25116>>, <<62401, 9674>>, <<20671, 31220>>, <<19536, 49077>>, <<16876, 2612>>, <<16380, 61700>>, <<53779, 39784>>, <<14786, 6800>>,
  <<3130, 11164>>, <<33277, 4384>>, <<13091, 61351>>, <<17911, 4417>>, <<37941, 43175>>, <<56424, 46033>>, <<9751, 56656>>, <<14738, 13271>>,
  <<8067, 828>>, <<65426, 51149>>, <<20438, 48852>>, <<13769, 13006>>, <<19574, 59004>>, <<23834, 35518>>, <<59676, 14417>>, <<20651, 31707>>,
  <<11494, 49936>>, <<48141, 19589>>, <<38252, 58309>>, <<40829, 28782>>, <<45005, 35013>>, <<64762, 4973>>, <<37465, 57627>>, <<32570, 26063>>,
  <<56135, 26906>>, <<48805, 15057>>, <<37385, 5367>>, <<53691, 7057>>, <<47325, 47241>>, <<44426, 11955>>, <<31872, 20438>>, <<25809, 36498>>,
  <<25280, 49304>>, <<51163, 36247>>, <<36285, 10248>>, <<51196, 1527>>, <<59442, 37878>>, <<54045, 8664>>, <<57187, 63528>>, <<56901, 45352>>,
  <<65338, 242>>, <<36944, 17528>>, <<44955, 29488>>, <<20061, 25467>>, <<51475, 57244>>, <<28658, 45582>>, <<11306, 42187>>, <<63814, 942>>,
  <<41333, 17789>>, <<41723, 40284>>, <<57694, 44990>>, <<41610, 49877>>, <<65185, 21871>>, <<54623, 12693>>, <<39090, 44558>>, <<58426, 41499>>,
  <<13196, 52133>>, <<61136, 7081>>, <<30417, 38288>>, <<50831, 12186>>, <<51823, 10272>>, <<36029, 17756>>, <<30514, 61476>>, <<29474, 41201>>,
  <<50370, 35851>>, <<39193, 57174>>, <<21671, 46140>>, <<50952, 23085>>, <<15175, 1030>>, <<1975, 29135>>, <<56979, 63542>>, <<36735, 54921>>,
  <<65183, 47315>>, <<20176, 31930>>, <<14631, 21611>>, <<14905, 9370>>, <<57352, 14103>>, <<38388, 38154>>, <<65090, 623>>, <<27162, 30363>>,
  <<22024, 21850>>, <<3261, 11775>>, <<4063, 26978>>, <<4342, 40077>>, <<548, 65472>>, <<263, 18329>>, <<27704, 43313>>, <<37373, 51700>>,
  <<51938, 43856>>, <<41695, 55705>>, <<53537, 54000>>, <<34166, 25040>>, <<33380, 20464>>, <<53649, 23898>>, <<35883, 31005>>, <<53224, 19450>>,
  <<37748, 10058>>, <<23869, 14899>>, <<54160, 44525>>, <<62464, 40102>>, <<19401, 19168>>, <<38449, 59964>>, <<16087, 20642>>, <<48871, 18360>>,
  <<31148, 10734>>, <<16311, 16072>>, <<16205, 24798>>, <<42787, 59530>>, <<26300, 39736>>, <<46122, 36261>>, <<63086, 41083>>, <<26989, 33774>>,
  <<58370, 34410>>, <<46284, 52555>>, <<35064, 30750>>, <<32625, 33816>>, <<5849, 30578>>, <<22798, 51296>>, <<64933, 3871>>, <<26101, 38810>>,
  <<14631, 52533>>, <<43063, 9463>>, <<22358, 44281>>, <<35079, 29174>>, <<21563, 11129>>, <<49126, 49518>>, <<16324, 61600>>, <<35832, 55167>>,
  <<39931, 57578>>, <<63509, 49306>>, <<24607, 61217>>, <<41905, 9155>>, <<31173, 64571>>, <<3990, 29526>>, <<6877, 37218>>, <<42984, 29309>>,
  <<28811, 55561>>, <<4275, 36685>>, <<21173, 22982>>, <<11297, 28120>>, <<23085, 60926>>, <<38696, 61645>>, <<46627, 62236>>, <<18609, 2081>>,
  <<11527, 9209>>, <<52445, 24123>>, <<4836, 45266>>, <<61323, 22522>>, <<25229, 11935>>, <<1187, 53062>>, <<47176, 46860>>, <<47985, 58>>,
  <<55816, 17184>>, <<44107, 31554>>, <<19598, 35809>>, <<6250, 64500>>, <<16815, 25772>>, <<38630, 36232>>, <<32200, 20945>>, <<46306, 6860>>,
  <<26960, 11212>>, <<39232, 41368>>, <<5823, 54778>>, <<13187, 25322>>, <<36778, 20254>>, <<34921, 57152>>, <<23447, 28968>>, <<21334, 52688>>,
  <<35377, 60349>>, <<51156, 9257>>, <<57727, 47812>>, <<43646, 8404>>, <<49045, 2461>>, <<60211, 11805>>, <<26615, 5753>>, <<132, 47486>>,
  <<49482, 43685>>, <<57165, 20764>>, <<37283, 48842>>, <<22877, 33264>>, <<25740, 24124>>, <<31866, 59375>>, <<24122, 32611>>, <<4919, 61836>>,
  <<54430, 19863>>, <<31540, 32898>>, <<54495, 4109>>, <<7876, 59433>>, <<20245, 11705>>, <<12236, 27647>>, <<17965, 55168>>, <<42702, 7460>>,
  <<49620, 3586>>, <<47274, 48624>>, <<30228, 53600>>, <<37989, 38081>>, <<27303, 62612>>, <<18183, 46965>>, <<34113, 20966>>, <<16077, 5352>>,
  <<27143, 65477>>, <<29291, 25967>>, <<19979, 34926>>, <<12988, 21037>>, <<44156, 6508>>, <<9000, 62597>>, <<24991, 53001>>, <<62732, 62556>>,
  <<59183, 26286>>, <<46148, 13312>>, <<27131, 401>>, <<26250, 20090>>, <<9908, 34788>>, <<46043, 2727>>, <<37502, 62213>>, <<52374, 32357>>,
  <<43303, 43248>>, <<63521, 7463>>, <<49506, 3231>>, <<21887, 53608>>, <<17641, 49295>>, <<64046, 31479>>, <<43857, 59601>>, <<48500, 27140>>,
  <<44668, 27383>>, <<63409, 34648>>, <<13572, 21475>>, <<27240, 54725>>, <<18152, 4819>>, <<51564, 48435>>, <<24797, 32326>>, <<7566, 120>>,
  <<54152, 63211>>, <<36101, 44524>>, <<65325, 62923>>, <<11535, 43854>>, <<760, 9786>>, <<64786, 28010>>, <<41334, 24381>>, <<24695, 42905>>,
  <<50849, 1753>>, <<9514, 7092>>, <<39045, 15908>>, <<57904, 54095>>, <<49475, 62157>>, <<14051, 9006>>, <<64049, 41496>>, <<35605, 20425>>,
  <<23934, 20577>>, <<63614, 41412>>, <<59798, 57872>>, <<21954, 11938>>, <<14906, 29655>>, <<42221, 19969>>, <<40897, 27008>>, <<54541, 13879>>,
  <<29812, 15539>>, <<62929, 18006>>, <<44253, 3908>>, <<63654, 46842>>, <<49344, 43760>>, <<27426, 51916>>, <<31637, 25535>>, <<55145, 18556>>,
  <<32772, 57524>>, <<61520, 46785>>, <<858, 25372>>, <<50093, 4619>>, <<2677, 50838>>, <<13880, 10750>>, <<10999, 65223>>, <<32864, 32046>>,
  <<51134, 27458>>, <<691, 34647>>, <<28455, 28707>>, <<489, 38258>>, <<27337, 63261>>, <<46287, 64759>>, <<10371, 59812>>, <<28946, 38624>>,
  <<7202, 14034>>, <<18330, 48163>>, <<52682, 60043>>, <<13905, 64947>>, <<36968, 20298>>, <<61945, 48784>>, <<27994, 7686>>, <<29496, 20522>>,
  <<29730, 34952>>, <<34330, 13271>>, <<28167, 54614>>, <<30988, 15920>>, <<27384, 62240>>, <<52185, 38738>>, <<621, 56787>>, <<10736, 32631>>,
  <<57817, 22253>>, <<43364, 9487>>, <<1607, 48190>>, <<6884, 23082>>, <<53561, 26831>>, <<27209, 39731>>, <<45892, 26258>>, <<1411, 59824>>,
  <<21014, 56034>>, <<24502, 547>>, <<26402, 21796>>, <<38270, 22062>>, <<16620, 38498>>, <<1287, 9868>>, <<42007, 65253>>, <<13435, 19710>>,
  <<54160, 27648>>, <<39250, 2449>>, <<32644, 61585>>, <<60324, 51423>>, <<38883, 60345>>, <<52275, 16950>>, <<22195, 20854>>, <<35567, 9359>>,
  <<3253, 47852>>, <<44277, 42349>>, <<59330, 30913>>, <<5004, 61358>>, <<62998, 63092>>, <<11307, 20353>>, <<1712, 12967>>, <<15250, 20912>>,
  <<20768, 24811>>, <<9047, 55793>>, <<32173, 2965>>, <<17865, 37570>>, <<3136, 21646>>, <<47119, 61985>>, <<2887, 7541>>, <<56035, 42085>>,
  <<35898, 46390>>, <<34635, 49022>>, <<45725, 17122>>, <<30843, 17226>>, <<16484, 7622>>, <<44701, 21812>>, <<13947, 11715>>, <<64125, 28972>>,
  <<5889, 51158>>, <<6653, 58580>>, <<49037, 11292>>, <<24465, 41423>>, <<34522, 63318>>, <<59803, 18136>>, <<39828, 4387>>, <<48984, 48799>>,
  <<42338, 1593>>, <<11463, 28498>>, <<20451, 59018>>, <<11975, 53201>>, <<6193, 50379>>, <<44580, 43201>>, <<51816, 32825>>, <<57233, 37809>>,
  <<51303, 34205>>, <<25357, 33907>>, <<32887, 29322>>, <<58316, 44410>>, <<12746, 55865>>, <<45578, 2879>>, <<62995, 28330>>, <<18670, 19184>>,
  <<46756, 61821>>, <<44965, 59381>>, <<15350, 28169>>, <<11832, 30055>>, <<48863, 54344>>, <<7944, 17818>>, <<62290, 20545>>, <<62766, 14755>>,
  <<10135, 4923>>, <<3463, 5639>>, <<52760, 8113>>, <<36246, 35197>>, <<19323, 40800>>, <<32530, 7581>>, <<2979, 41128>>, <<4994, 60668>>,
  <<42704, 48624>>, <<61463, 10969>>, <<47623, 26387>>, <<48599, 39836>>, <<13958, 24152>>, <<56183, 32947>>, <<1795, 29154>>, <<61968, 63284>>,
  <<30766, 48230>>, <<57177, 22069>>, <<57923, 42154>>, <<59832, 49916>>, <<25981, 10674>>, <<43325, 57332>>, <<22038, 17135>>, <<58350, 38918>>,
  <<57016, 43198>>, <<1593, 53956>>, <<34696, 64017>>, <<15927, 23185>>, <<11419, 62769>>, <<2135, 11568>>, <<64623, 13825>>, <<61206, 11170>>,
  <<6684, 19108>>, <<31811, 4951>>, <<22372, 14686>>, <<48478, 8114>>, <<40544, 28868>>, <<31691, 10164>>, <<23630, 49321>>, <<64740, 53710>>,
  <<56881, 64439>>, <<17270, 54983>>, <<58806, 60070>>, <<48496, 55195>>, <<52185, 42293>>, <<50956, 15671>>, <<18643, 49411>>, <<9346, 37904>>,
  <<43125, 28805>>, <<38682, 8731>>, <<50954, 57968>>, <<56461, 45782>>, <<62022, 61290>>, <<13437, 59097>>, <<25518, 5620>>, <<52095, 39519>>,
  <<47317, 64447>>, <<36607, 51983>>, <<12146, 10732>>, <<47360, 52020>>, <<1379, 26884>>, <<38323, 58010>>, <<51386, 36280>>, <<28982, 13705>>,
  <<48024, 15218>>, <<18434, 5317>>, <<33439, 26781>>, <<51977, 30925>>, <<6789, 28254>>, <<63419, 29496>>, <<29770, 13603>>, <<38131, 53465>>,
  <<5870, 53500>>, <<63062, 62386>>, <<60813, 5603>>, <<34977, 11650>>, <<260, 228>>, <<43068, 11280>>, <<43587, 65029>>, <<54838, 65019>>,
  <<52754, 17722>>, <<31129, 51887>>, <<46825, 55951>>, <<33770, 64678>>, <<36144, 4170>>, <<35474, 37725>>, <<1697, 12802>>, <<30220, 20544>>,
  <<27896, 28156>>, <<35162, 5537>>, <<37660, 18358>>, <<47988, 29709>>, <<37421, 41422>>, <<42830, 24762>>, <<40402, 58842>>, <<52591, 38872>>,
  <<25448, 41411>>, <<13334, 30384>>, <<65415, 62870>>, <<12886, 23201>>, <<42479, 4565>>, <<34622, 57012>>, <<12466, 15479>>, <<50823, 51961>>,
  <<8825, 58431>>, <<1770, 53135>>, <<16083, 19815>>, <<8745, 58852>>, <<33915, 38098>>, <<13003, 10942>>, <<41293, 39064>>, <<54753, 31660>>,
  <<20745, 13317>>, <<13823, 29437>>, <<26127, 45648>>, <<26653, 27001>>, <<53756, 38326>>, <<60340, 45832>>, <<39954, 45844>>, <<13566, 33966>>,
  <<30391, 34264>>, <<3737, 56154>>, <<42682, 23721>>, <<52545, 46969>>, <<15318, 44744>>, <<59831, 2080>>, <<65306, 61632>>, <<57342, 9382>>,
  <<30495, 42279>>, <<18034, 9107>>, <<17056, 27937>>, <<24890, 24891>>, <<44408, 27687>>, <<54898, 49142>>, <<63415, 8944>>, <<7014, 14780>>,
  <<6267, 31766>>, <<9940, 43651>>, <<59784, 8621>>, <<55788, 16096>>, <<43926, 16795>>, <<9832, 58582>>, <<56504, 16175>>, <<6238, 41798>>,
  <<2672, 64739>>, <<14530, 35666>>, <<14709, 17432>>, <<6240, 46190>>, <<63556, 25772>>, <<61399, 46978>>, <<56423, 55648>>, <<47888, 7807>>,
  <<11502, 59481>>, <<61415, 27981>>, <<65190, 18968>>, <<43663, 57111>>, <<42678, 10745>>, <<62851, 46110>>, <<4219, 9392>>, <<36706, 46334>>,
  <<55352, 33640>>, <<21904, 64578>>, <<12380, 7318>>, <<41381, 18149>>, <<38442, 24570>>, <<57848, 18914>>, <<12068, 37922>>, <<9544, 50638>>,
  <<36136, 55947>>, <<35001, 60617>>, <<29686, 9239>>, <<30789, 7548>>, <<48328, 10750>>, <<20663, 5780>>, <<63948, 15673>>, <<65352, 9658>>,
  <<24127, 60014>>, <<44147, 13938>>, <<2173, 14317>>, <<17374, 20764>>, <<53742, 32834>>, <<26646, 3028>>, <<13031, 38600>>, <<62904, 26429>>,
  <<33248, 21397>>, <<20539, 52422>>, <<16639, 30441>>, <<9543, 58668>>, <<11, 53288>>, <<53184, 9300>>, <<19442, 22824>>, <<31211, 53512>>,
  <<30836, 61633>>, <<56795, 38805>>, <<61231, 16743>>, <<29130, 3011>>, <<59333, 20681>>, <<54743, 26619>>, <<24367, 64046>>, <<15275, 27551>>,
  <<64630, 42423>>, <<26468, 62778>>, <<11763, 27641>>, <<11533, 3676>>, <<62649, 31681>>, <<52252, 20218>>, <<30570, 12487>>, <<45450, 52006>>,
  <<16374, 43590>>, <<14576, 56459>>, <<60249, 40542>>, <<29215, 26756>>, <<20201, 22490>>, <<54191, 24884>>, <<4012, 38101>>, <<54100, 37018>>,
  <<40761, 47943>>, <<61172, 34954>>, <<19735, 30118>>, <<16267, 1605>>, <<39580, 37190>>, <<57922, 37103>>, <<33943, 5717>>, <<37554, 42333>>,
  <<643, 53658>>, <<158, 23604>>, <<1449, 40257>>, <<39480, 48707>>, <<65364, 42058>>, <<62166, 40876>>, <<8341, 21731>>, <<4673, 59352>>,
  <<64445, 58447>>, <<32024, 39935>>, <<19228, 29474>>, <<58641, 4713>>, <<19106, 11705>>, <<4012, 13350>>, <<40998, 24165>>, <<54442, 57543>>,
  <<52075, 55980>>, <<32977, 28284>>, <<36118, 10146>>, <<36631, 9635>>, <<43956, 16756>>, <<54975, 5730>>, <<28053, 47458>>, <<60254, 62784>>,
  <<58101, 38548>>, <<25633, 10797>>, <<46689, 64160>>, <<2465, 41848>>, <<63365, 15069>>, <<38071, 40301>>, <<30789, 19962>>, <<22918, 7078>>,
  <<51362, 50846>>, <<49021, 31759>>, <<5349, 40081>>, <<30240, 25977>>, <<23116, 54484>>, <<14750, 44853>>, <<50773, 44068>>, <<23224, 63615>>,
  <<29561, 7787>>, <<48622, 39375>>, <<21669, 34942>>, <<21199, 57184>>, <<668, 41727>>, <<53242, 6983>>, <<27139, 47813>>, <<41559, 22403>>,
  <<60049, 32610>>, <<42508, 19434>>, <<3547, 6913>>, <<23726, 3864>>, <<6163, 61519>>, <<38008, 40940>>, <<61050, 2205>>, <<41839, 54758>>,
  <<61812, 10082>>, <<8344, 40484>>, <<53065, 5717>>, <<31718, 26283>>, <<65383, 23478>>, <<31293, 48081>>, <<46578, 61707>>, <<58632, 33153>>,
  <<15572, 27588>>, <<11655, 62354>>, <<21101, 18050>>, <<50107, 61717>>, <<64088, 63682>>, <<1076, 62397>>, <<58879, 22827>>, <<61932, 30550>>,
  <<15664, 41446>>, <<14340, 60914>>, <<36169, 4880>>, <<62850, 7123>>, <<20759, 40850>>, <<64281, 4227>>, <<19571, 3894>>, <<30611, 48783>>,
  <<586, 17912>>, <<55494, 6108>>, <<58023, 43999>>, <<59883, 61927>>, <<63321, 52848>>, <<64011, 56566>>, <<32853, 57300>>, <<8874, 36623>>,
  <<38573, 16359>>, <<52724, 19384>>, <<64268, 37547>>, <<11350, 12574>>, <<53573, 47364>>, <<22638, 64203>>, <<30783, 54493>>, <<5129, 17498>>,
  <<62214, 20672>>, <<1949, 27237>>, <<52454, 35890>>, <<516, 23784>>, <<717, 51521>>, <<54576, 25017>>, <<49527, 62474>>, <<18887, 717>>,
  <<8753, 22310>>, <<51203, 20387>>, <<49273, 29438>>, <<44298, 55188>>, <<6143, 17849>>, <<54733, 27218>>, <<24419, 18241>>, <<19369, 46737>>,
  <<36700, 23481>>, <<49973, 31939>>, <<25561, 34402>>, <<7283, 248>>, <<43121, 3811>>, <<38307, 1732>>, <<18082, 29012>>, <<15277, 25631>>,
  <<1551, 40492>>, <<2045, 48546>>, <<12752, 10721>>, <<27947, 53288>>, <<33379, 12976>>, <<15841, 57084>>, <<22917, 33267>>, <<39254, 48861>>,
  <<8432, 11014>>, <<45203, 23477>>, <<6492, 29109>>, <<44770, 7238>>, <<22981, 16386>>, <<32, 45311>>, <<41626, 33365>>, <<40193, 54610>>,
  <<12687, 2917>>, <<11797, 25576>>, <<57245, 12702>>, <<36380, 30507>>, <<4218, 17726>>, <<26797, 58509>>, <<11633, 60040>>, <<30286, 60386>>,
  <<51954, 32974>>, <<41794, 8104>>, <<12375, 52717>>, <<37107, 14030>>, <<46000, 45582>>, <<5978, 46946>>, <<41803, 23419>>, <<56701, 39161>>,
  <<50400, 18097>>, <<7602, 44871>>, <<39963, 52844>>, <<25853, 1060>>, <<41423, 15504>>, <<44183, 32938>>, <<4968, 19224>>, <<48437, 33745>>,
  <<39774, 54194>>, <<31157, 61125>>, <<52317, 30532>>, <<22234, 5579>>, <<24379, 54399>>, <<31940, 58934>>, <<54150, 43349>>, <<28146, 18499>>,
  <<44206, 39737>>, <<53710, 51632>>, <<15670, 38426>>, <<11922, 56360>>, <<63193, 19516>>, <<39576, 33821>>, <<10465, 56379>>, <<53684, 20794>>,
  <<49433, 13968>>, <<5373, 53330>>, <<8837, 45649>>, <<65305, 10344>>, <<54869, 11769>>, <<49312, 38542>>, <<10924, 23410>>, <<46343, 2401>>,
  <<60391, 43285>>, <<2187, 41271>>, <<51475, 12709>>, <<15127, 41018>>, <<32566, 49465>>, <<63097, 30592>>, <<51734, 43908>>, <<10539, 34519>>,
  <<58577, 21876>>, <<52539, 19813>>, <<7224, 14297>>, <<34039, 47018>>, <<19155, 35918>>, <<14239, 47384>>, <<37884, 40732>>, <<27711, 24007>>,
  <<59219, 1849>>, <<51068, 51025>>, <<3262, 6115>>, <<5509, 29381>>, <<56745, 39210>>, <<8208, 62630>>, <<8913, 40635>>, <<15237, 23226>>,
  <<19937, 56509>>, <<157, 42442>>, <<47240, 36767>>, <<38475, 54366>>, <<36471, 48493>>, <<48412, 48066>>, <<24194, 52919>>, <<29884, 63228>>,
  <<35039, 25754>>, <<32178, 42032>>, <<65199, 27258>>, <<14484, 47070>>, <<34595, 27781>>, <<46651, 16178>>, <<56946, 31536>>, <<9973, 39563>>,
  <<45868, 61311>>, <<58896, 5942>>, <<24936, 8916>>, <<46281, 49024>>, <<9092, 20384>>, <<50798, 15398>>, <<3954, 61245>>, <<57494, 22606>>,
  <<38621, 486>>, <<819, 62090>>, <<34530, 58597>>, <<46852, 55575>>, <<54593, 16628>>, <<12750, 49376>>, <<12823, 1685>>, <<19715, 19240>>,
  <<63364, 45611>>, <<33282, 55536>>, <<12838, 2695>>, <<53116, 59873>>, <<16223, 39663>>, <<54815, 29935>>, <<13536, 36205>>, <<23557, 63813>>,
  <<3422, 14354>>, <<47437, 41292>>, <<36075, 22110>>, <<38884, 37523>>, <<51212, 60813>>, <<58634, 32148>>, <<16001, 2060>>, <<13607, 48341>>,
  <<29262, 46572>>, <<29909, 586>>, <<63789, 38428>>, <<37018, 25303>>, <<54247, 26205>>, <<48914, 62940>>, <<7543, 2960>>, <<14145, 12111>>,
  <<4875, 16296>>, <<34313, 64271>>, <<49934, 29234>>, <<61672, 31951>>, <<36554, 19627>>, <<5868, 50502>>, <<1085, 35385>>, <<34308, 44172>>,
  <<59206, 41421>>, <<8836, 36963>>, <<12374, 29720>>, <<5916, 53876>>, <<12370, 42399>>, <<33328, 17010>>, <<3015, 1584>>, <<19441, 61952>>,
  <<24596, 37270>>, <<62934, 59957>>, <<37405, 11837>>, <<37507, 29465>>, <<8651, 5470>>, <<27230, 41682>>, <<31316, 43274>>, <<4921, 25151>>,
  <<11801, 15564>>, <<7798, 65367>>, <<11642, 1128>>, <<4881, 11252>>, <<18245, 10633>>, <<60236, 11594>>, <<47392, 30556>>, <<29388, 50004>>,
  <<38280, 45072>>, <<43768, 19062>>, <<13007, 529>>, <<31863, 62363>>, <<5651, 18209>>, <<25847, 5344>>, <<28132, 32212>>, <<22173, 13012>>,
  <<32616, 47086>>, <<47184, 63129>>, <<65443, 24166>>, <<34939, 15993>>, <<40807, 54121>>, <<5641, 23039>>, <<48303, 8557>>, <<64925, 21366>>,
  <<40780, 60323>>, <<18061, 25361>>, <<32827, 52743>>, <<27121, 7948>>, <<57980, 33939>>, <<10966, 26546>>, <<16922, 30688>>, <<59224, 6111>>,
  <<3396, 58009>>, <<10683, 8510>>, <<61852, 43297>>, <<42704, 11961>>, <<22852, 61943>>, <<2124, 30663>>, <<56340, 64369>>, <<32276, 2706>>,
  <<59273, 40573>>, <<56618, 22910>>, <<63441, 34903>>, <<22122, 2504>>, <<17266, 236>>, <<47057, 16093>>, <<58693, 54660>>, <<34527, 56462>>,
  <<39124, 55737>>, <<20002, 31160>>, <<9331, 63700>>, <<25276, 24059>>, <<14667, 22212>>, <<32997, 51084>>, <<9949, 28463>>, <<36728, 18679>>,
  <<44215, 23735>>, <<50815, 47140>>, <<45512, 37206>>, <<63442, 9722>>, <<61612, 41338>>, <<17462, 28575>>, <<53981, 19168>>, <<16638, 39201>>,
  <<55860, 14564>>, <<54262, 33338>>, <<8210, 30940>>, <<41052, 33075>>, <<59099, 19520>>, <<9909, 58533>>, <<10819, 40194>>, <<21489, 42456>>,
  <<60892, 60267>>, <<9646, 65321>>, <<4265, 31351>>, <<12042, 50288>>, <<23554, 5223>>, <<49962, 26605>>, <<24020, 38185>>, <<16037, 7857>>,
  <<38230, 39857>>, <<16559, 31296>>, <<39158, 40947>>, <<56680, 62408>>, <<3401, 39237>>, <<38258, 17472>>, <<18804, 27695>>, <<32716, 1706>>,
  <<14979, 23998>>, <<18851, 54152>>, <<6736, 21953>>, <<21403, 12565>>, <<43689, 29153>>, <<11322, 61660>>, <<33503, 24118>>, <<1046, 25997>>,
  <<58982, 46078>>, <<14350, 40767>>, <<5428, 45289>>, <<4074, 2750>>, <<46730, 58711>>, <<33557, 25929>>, <<15326, 58422>>, <<32247, 11854>>,
  <<28487, 45772>>, <<7461, 38926>>, <<30062, 14482>>, <<26107, 31405>>, <<39799, 19893>>, <<47272, 44706>>, <<23630, 17341>>, <<53002, 11987>>,
  <<25089, 24087>>, <<36992, 23760>>, <<19924, 40109>>, <<44844, 1950>>, <<63918, 10019>>, <<56855, 57743>>, <<56958, 33239>>, <<20401, 62700>>,
  <<52650, 38263>>, <<64210, 38387>>, <<47879, 22146>>, <<44614, 51074>>, <<14351, 14576>>, <<10160, 62275>>, <<26865, 14696>>, <<32907, 52706>>,
  <<43266, 24916>>, <<28249, 26928>>, <<26403, 41496>>, <<32737, 55766>>, <<64813, 36621>>, <<55324, 39430>>, <<62580, 48080>>, <<50898, 7661>>,
  <<64949, 41912>>, <<3148, 48172>>, <<46006, 40254>>, <<31766, 5993>>, <<41327, 19646>>, <<22933, 43934>>, <<23447, 30577>>, <<52395, 57989>>,
  <<54447, 31511>>, <<37911, 19723>>, <<32773, 40749>>, <<26070, 59433>>, <<55025, 23031>>, <<7303, 41304>>, <<37696, 57280>>, <<23264, 24170>>,
  <<59820, 19474>>, <<63766, 14355>>, <<49450, 63409>>, <<60598, 36725>>, <<34544, 46815>>, <<49923, 27426>>, <<11986, 14976>>, <<33454, 52079>>,
  <<11963, 55829>>, <<13509, 41454>>, <<44402, 21901>>, <<20571, 62037>>, <<19746, 1606>>, <<53, 63573>>, <<31706, 56811>>, <<24177, 10000>>,
  <<3050, 32663>>, <<13719, 19482>>, <<65454, 2273>>, <<3150, 59420>>, <<14555, 9814>>, <<98, 26472>>, <<11996, 21175>>, <<21436, 34707>>,
  <<44688, 12641>>, <<55778, 28621>>, <<18356, 64735>>, <<10939, 15212>>, <<38019, 30877>>, <<397, 21097>>, <<8411, 61029>>, <<11308, 4923>>,
  <<13333, 40496>>, <<8344, 35232>>, <<8293, 11409>>, <<37847, 38918>>, <<13812, 18121>>, <<53084, 33837>>, <<55820, 52507>>, <<24413, 3791>>,
  <<18487, 64186>>, <<5834, 30358>>, <<55938, 465>>, <<58288, 30175>>, <<55192, 54652>>, <<32346, 32421>>, <<36058, 41632>>, <<58560, 59830>>,
  <<62712, 13613>>, <<39799, 16679>>, <<33336, 15064>>, <<31332, 47520>>, <<35646, 24190>>, <<16607, 60162>>, <<57777, 12476>>, <<1033, 33545>>,
  <<56509, 52343>>, <<46825, 64911>>, <<37213, 61537>>, <<37661, 28757>>, <<33697, 64185>>, <<10591, 53400>>, <<34270, 36281>>, <<5935, 21001>>,
  <<44107, 27485>>, <<25935, 7209>>, <<23837, 11155>>, <<24528, 11693>>, <<21038, 59218>>, <<45693, 34848>>, <<54708, 48535>>, <<37887, 18602>>,
  <<52058, 32721>>, <<15778, 63054>>, <<14645, 10067>>, <<25242, 10943>>, <<18134, 40544>>, <<58025, 50268>>, <<24633, 51631>>, <<63270, 60624>>,
  <<25907, 1324>>, <<7919, 16341>>, <<7218, 61915>>, <<2726, 8376>>, <<27700, 60455>>, <<28975, 41179>>, <<3691, 62131>>, <<21731, 35480>>,
  <<39955, 61357>>, <<46734, 2387>>, <<65061, 7463>>, <<26931, 39461>>, <<16247, 65063>>, <<5672, 18140>>, <<15926, 37209>>, <<5667, 7218>>,
  <<52459, 50391>>, <<54249, 53482>>, <<1362, 18640>>, <<35031, 6305>>, <<55553, 56828>>, <<56665, 27852>>, <<14117, 1889>>, <<22001, 59260>>,
  <<43142, 6117>>, <<56345, 1494>>, <<11910, 2758>>, <<21671, 46421>>, <<63036, 56579>>, <<23189, 39246>>, <<16042, 2122>>, <<59436, 46603>>,
  <<7485, 59831>>, <<35997, 63009>>, <<2575, 41650>>, <<51686, 8443>>, <<65416, 24247>>, <<35007, 9553>>, <<20250, 36649>>, <<39269, 50312>>,
  <<43650, 45595>>, <<30798, 8294>>, <<57959, 13452>>, <<39881, 32874>>, <<25387, 62223>>, <<54043, 9342>>, <<22090, 4515>>, <<17492, 14708>>,
  <<15768, 58284>>, <<55353, 13920>>, <<15482, 54634>>, <<21143, 33209>>, <<23865, 11064>>, <<49962, 8686>>, <<59486, 34881>>, <<36498, 39918>>,
  <<49857, 49495>>, <<62533, 48757>>, <<51843, 53343>>, <<23275, 61535>>, <<50103, 24249>>, <<3519, 24303>>, <<10798, 6601>>, <<41152, 33016>>,
  <<34455, 52413>>, <<4511, 65432>>, <<36763, 53047>>, <<61580, 52877>>, <<29375, 13772>>, <<50179, 39614>>, <<41681, 53304>>, <<55282, 30646>>,
  <<51081, 49134>>, <<29921, 3197>>, <<49605, 25365>>, <<16427, 18270>>, <<53524, 17684>>, <<18600, 10920>>, <<27913, 35876>>, <<24485, 354>>,
  <<21166, 58276>>, <<61023, 8729>>, <<4882, 970>>, <<31060, 5287>>, <<35600, 57256>>, <<33069, 9068>>, <<61894, 30822>>, <<36384, 25397>>,
  <<60605, 38082>>, <<48879, 37829>>, <<28952, 41098>>, <<65283, 53986>>, <<45766, 32998>>, <<35010, 64337>>, <<55302, 5889>>, <<41788, 55768>>,
  <<48699, 18575>>, <<33530, 36628>>, <<13398, 48473>>, <<62179, 63705>>, <<52327, 56990>>, <<30517, 34556>>, <<43277, 19731>>, <<23033, 35896>>,
  <<45960, 54991>>, <<54174, 21340>>, <<22304, 39861>>, <<57411, 42998>>, <<12262, 46632>>, <<53304, 23722>>, <<22288, 36813>>, <<21213, 37422>>,
  <<5695, 16580>>, <<6364, 21121>>, <<20948, 18242>>, <<6495, 56594>>, <<27634, 34498>>, <<57192, 4253>>, <<12586, 43316>>, <<10340, 16693>>,
  <<37080, 59979>>, <<12961, 56906>>, <<24409, 13465>>, <<26747, 17606>>, <<27258, 31267>>, <<41561, 28199>>, <<8043, 36068>>, <<51827, 55188>>,
  <<58329, 46301>>, <<21918, 33985>>, <<2590, 7253>>, <<13123, 2679>>, <<16999, 51266>>, <<17589, 59161>>, <<19600, 60270>>, <<13549, 59137>>,
  <<38950, 46835>>, <<9910, 35211>>, <<2703, 53613>>, <<24636, 26305>>, <<38182, 8268>>, <<62077, 37362>>, <<19066, 38821>>, <<2044, 62065>>,
  <<23694, 32301>>, <<25198, 64028>>, <<8715, 23733>>, <<31768, 23789>>, <<15158, 42789>>, <<41434, 18145>>, <<60130, 33065>>, <<9546, 50653>>,
  <<14466, 53760>>, <<65337, 59719>>, <<23428, 4934>>, <<3254, 11666>>, <<15166, 42296>>, <<42480, 27621>>, <<64988, 8504>>, <<25374, 65007>>,
  <<50499, 41681>>, <<1067, 46228>>, <<15161, 35343>>, <<20284, 6484>>, <<5418, 26715>>, <<40407, 47562>>, <<62394, 58097>>, <<24916, 16080>>,
  <<4107, 44623>>, <<20970, 14919>>, <<14552, 59853>>, <<1074, 34195>>, <<6121, 13636>>, <<41779, 17269>>, <<40892, 57362>>, <<9040, 60927>>,
  <<7740, 18950>>, <<36699, 57604>>, <<16557, 35356>>, <<23509, 53641>>, <<6908, 26669>>, <<37373, 62101>>, <<28536, 15466>>, <<43040, 30054>>,
  <<28666, 12180>>, <<58001, 9038>>, <<160, 21423>>, <<39543, 41963>>, <<44788, 27863>>, <<46734, 64521>>, <<61573, 53666>>, <<47442, 30383>>,
  <<28110, 51699>>, <<39815, 48074>>, <<19221, 63730>>, <<62496, 42766>>, <<65303, 30438>>, <<49632, 30940>>, <<8979, 49796>>, <<41448, 15709>>,
  <<27024, 3953>>, <<27328, 18892>>, <<20562, 11087>>, <<34514, 60828>>, <<59366, 59017>>, <<47722, 50690>>, <<21789, 38404>>, <<53051, 13538>>,
  <<6817, 23528>>, <<51161, 21985>>, <<64740, 29724>>, <<12225, 20825>>, <<30185, 59125>>, <<61040, 8851>>, <<41706, 15514>>, <<30809, 36640>>,
  <<28463, 3420>>, <<65449, 64546>>, <<29725, 40349>>, <<12207, 60819>>, <<13278, 63524>>, <<26, 36523>>, <<20591, 7983>>, <<1458, 38437>>,
  <<34807, 30640>>, <<48500, 48210>>, <<53665, 44251>>, <<32374, 29083>>, <<60777, 51288>>, <<23034, 42071>>, <<58247, 15334>>, <<42659, 59830>>,
  <<27965, 23937>>, <<52919, 17514>>, <<36865, 55712>>, <<27264, 25812>>, <<36571, 32913>>, <<2845, 64370>>, <<63416, 27516>>, <<48522, 60339>>,
  <<60050, 27639>>, <<34431, 34997>>, <<9189, 12217>>, <<34311, 37808>>, <<43821, 7162>>, <<50175, 56144>>, <<59100, 50139>>, <<54515, 41208>>,
  <<16011, 14371>>, <<14064, 12916>>, <<23008, 12458>>, <<55300, 24992>>, <<46433, 39010>>, <<13520, 4585>>, <<29914, 34913>>, <<53401, 46608>>,
  <<62348, 8139>>, <<24473, 10307>>, <<49680, 41421>>, <<6062, 45975>>, <<1026, 2532>>, <<29088, 62944>>, <<14736, 44671>>, <<47390, 55574>>,
  <<28224, 61880>>, <<24535, 11929>>, <<15368, 35104>>, <<51866, 42337>>, <<32615, 11720>>, <<24960, 50284>>, <<16601, 13137>>, <<31340, 19361>>,
  <<53627, 48865>>, <<12650, 23478>>, <<10615, 45719>>, <<14721, 54871>>, <<13386, 43894>>, <<39914, 57466>>, <<3771, 48427>>, <<59327, 38323>>,
  <<39587, 5394>>, <<17599, 51203>>, <<51386, 27724>>, <<43398, 64548>>, <<62253, 4416>>, <<60709, 47516>>, <<23867, 9232>>, <<44017, 37739>>,
  <<12225, 57854>>, <<41306, 33338>>, <<18515, 15551>>, <<34282, 52204>>, <<50604, 17184>>, <<39193, 32877>>, <<57858, 41568>>, <<3182, 28075>>,
  <<2296, 38557>>, <<56100, 34395>>, <<679, 55495>>, <<28817, 16233>>, <<31493, 19554>>, <<45828, 59213>>, <<17469, 18093>>, <<27776, 25764>>,
  <<59548, 46019>>, <<14551, 58456>>, <<60104, 944>>, <<47195, 9097>>, <<8754, 10434>>, <<54893, 61954>>, <<35533, 11056>>, <<64814, 51959>>,
  <<30089, 46748>>, <<23364, 37512>>, <<37838, 10322>>, <<39783, 59891>>, <<8415, 20749>>, <<33424, 58348>>, <<42734, 61700>>, <<53433, 41561>>,
  <<7667, 49294>>, <<19043, 11120>>, <<41410, 4796>>, <<28703, 35511>>, <<3362, 56563>>, <<20737, 26893>>, <<64756, 5652>>, <<64197, 22167>>,
  <<34385, 37183>>, <<41805, 34265>>, <<63345, 61129>>, <<36536, 45462>>, <<49610, 21764>>, <<49512, 35946>>, <<31900, 56338>>, <<32814, 59014>>,
  <<54570, 18119>>, <<32801, 7682>>, <<37691, 55719>>, <<9533, 19447>>, <<9202, 60154>>, <<246, 28136>>, <<20766, 65089>>, <<52923, 64884>>,
  <<45718, 57842>>, <<52544, 5101>>, <<49119, 63482>>, <<7392, 30577>>, <<41147, 25291>>, <<19246, 15103>>, <<12699, 40841>>, <<5513, 55131>>,
  <<17778, 25370>>, <<32168, 31224>>, <<35120, 37988>>, <<25651, 6278>>, <<26122, 8106>>, <<49223, 7541>>, <<48012, 48769>>, <<49283, 28286>>,
  <<21927, 29140>>, <<65304, 40356>>, <<2260, 9698>>, <<12240, 34537>>, <<27176, 39042>>, <<43328, 55786>>, <<55604, 20523>>, <<55658, 21317>>,
  <<33965, 2689>>, <<62749, 48215>>, <<18672, 40508>>, <<39214, 44640>>, <<7807, 16891>>, <<42801, 11611>>, <<12410, 41343>>, <<653, 11997>>,
  <<28343, 46363>>, <<56187, 30352>>, <<58262, 32179>>, <<56706, 16324>>, <<23551, 11801>>, <<34282, 13630>>, <<10014, 1642>>, <<63154, 23229>>,
  <<43728, 27321>>, <<18212, 57033>>, <<27476, 17057>>, <<59141, 34455>>, <<36351, 46237>>, <<285, 17146>>, <<56181, 18154>>, <<4974, 6036>>,
  <<56918, 42669>>, <<7313, 9740>>, <<34332, 57843>>, <<42362, 60058>>, <<34098, 61523>>, <<21663, 51793>>, <<10529, 15249>>, <<54476, 11>>,
  <<8173, 41294>>, <<41138, 36900>>, <<53568, 41713>>, <<33184, 9700>>, <<26502, 42882>>, <<58538, 7387>>, <<59515, 40188>>, <<57179, 50880>>,
  <<28892, 37033>>, <<46766, 56106>>, <<51871, 9011>>, <<59982, 18700>>, <<34054, 39863>>, <<21105, 1408>>, <<53982, 23375>>, <<16839, 5394>>,
  <<57581, 8533>>, <<32436, 20072>>, <<6461, 54021>>, <<45461, 41955>>, <<53109, 46146>>, <<42569, 27735>>, <<9401, 47998>>, <<65189, 1919>>,
  <<60590, 36034>>, <<12790, 36669>>, <<36078, 7416>>, <<62440, 27887>>, <<5201, 54491>>, <<35470, 22798>>, <<9589, 29415>>, <<55780, 5468>>,
  <<25747, 25534>>, <<12983, 27225>>, <<33964, 62360>>, <<12816, 28606>>, <<7625, 45357>>, <<48032, 39024>>, <<11747, 16100>>, <<39728, 22047>>,
  <<25578, 294>>, <<4194, 36461>>, <<18872, 56188>>, <<12917, 32184>>, <<61747, 42123>>, <<13436, 33414>>, <<10146, 56395>>, <<25092, 18602>>,
  <<38356, 8706>>, <<34409, 31542>>, <<48611, 45504>>, <<9917, 42655>>, <<44864, 23538>>, <<19957, 13286>>, <<40941, 38327>>, <<58713, 16485>>,
  <<28717, 32919>>, <<4055, 60487>>, <<19697, 16078>>, <<53973, 12161>>, <<33469, 45378>>, <<61550, 17481>>, <<23700, 35452>>, <<22720, 58352>>,
  <<10643, 18533>>, <<47927, 36816>>, <<12899, 515>>, <<26874, 3793>>, <<50218, 44021>>, <<51688, 6923>>, <<14362, 42880>>, <<3453, 59993>>,
  <<29177, 5320>>, <<61887, 45830>>, <<41241, 10023>>, <<64891, 56753>>, <<44190, 19681>>, <<32975, 11931>>, <<32607, 33589>>, <<61070, 52329>>,
  <<50084, 41995>>, <<57965, 64775>>, <<22219, 64056>>, <<9923, 7586>>, <<43263, 17016>>, <<52764, 44998>>, <<24027, 2529>>, <<38302, 30392>>,
  <<50100, 3374>>, <<22959, 24058>>, <<49646, 19635>>, <<23506, 61876>>, <<30234, 42417>>, <<19409, 620>>, <<52820, 18746>>, <<33477, 17632>>,
  <<38995, 42580>>, <<1841, 50704>>, <<7085, 38172>>, <<44369, 60604>>, <<59496, 14131>>, <<44209, 45302>>, <<39786, 64191>>, <<58923, 7603>>,
  <<31677, 60537>>, <<37124, 57501>>, <<35215, 29300>>, <<56100, 52189>>, <<60707, 42186>>, <<13983, 43885>>, <<34543, 43647>>, <<52812, 56706>>,
  <<38230, 57200>>, <<9676, 62783>>, <<39455, 60923>>, <<15308, 59193>>, <<42023, 14629>>, <<31901, 59089>>, <<9374, 11768>>, <<42989, 55110>>,
  <<4447, 23360>>, <<46002, 51035>>, <<35478, 48643>>, <<54784, 10450>>, <<41211, 31873>>, <<16424, 2160>>, <<14945, 17706>>, <<58656, 8488>>,
  <<57580, 54866>>, <<2419, 60113>>, <<21509, 30295>>, <<6921, 16395>>, <<10069, 5988>>, <<15129, 8138>>, <<59180, 41630>>, <<50934, 55168>>,
  <<1191, 35289>>, <<38932, 40257>>, <<51124, 28822>>, <<10134, 38468>>, <<62982, 19102>>, <<41161, 5050>>, <<12766, 48509>>, <<47979, 18837>>,
  <<58578, 34799>>, <<25148, 56470>>, <<30141, 9929>>, <<37045, 65137>>, <<35258, 26019>>, <<54799, 19582>>, <<36509, 48133>>, <<43856, 12305>>,
  <<3573, 39350>>, <<63665, 53002>>, <<45043, 35624>>, <<25273, 18648>>, <<12816, 17452>>, <<52662, 46572>>, <<53958, 45057>>, <<12902, 44997>>,
  <<49266, 31483>>, <<23621, 37987>>, <<52634, 28395>>, <<4399, 20053>>, <<9597, 63387>>, <<58177, 24482>>, <<36007, 64092>>, <<1098, 33241>>,
  <<9192, 2685>>, <<50166, 38994>>, <<45472, 52130>>, <<47273, 35189>>, <<1295, 12590>>, <<7774, 62546>>, <<34650, 5884>>, <<14711, 59034>>,
  <<43810, 32510>>, <<38728, 5728>>, <<8948, 19933>>, <<26169, 27564>>, <<414, 46731>>, <<27512, 3405>>, <<19995, 30111>>, <<45234, 11334>>,
  <<5723, 58143>>, <<217, 55013>>, <<16101, 18629>>, <<33319, 47876>>, <<19635, 36593>>, <<2018, 42744>>, <<58328, 3992>>, <<28176, 20016>>,
  <<26179, 31434>>, <<59907, 23704>>, <<53750, 5548>>, <<8887, 11018>>, <<31907, 63531>>, <<61441, 33409>>, <<11984, 51742>>, <<58583, 16222>>,
  <<20633, 50547>>, <<64145, 22237>>, <<47342, 54525>>, <<27209, 54153>>, <<18988, 9901>>, <<53299, 50969>>, <<19232, 43180>>, <<48784, 56970>>,
  <<21365, 38918>>, <<17443, 53559>>, <<63611, 53383>>, <<47841, 40119>>, <<33556, 16788>>, <<27775, 11117>>, <<39440, 4943>>, <<30948, 47947>>,
  <<4565, 891>>, <<51552, 34574>>, <<27392, 56149>>, <<38606, 1767>>, <<44646, 45879>>, <<30174, 26550>>, <<56185, 20644>>, <<21164, 43870>>,
  <<63653, 50441>>, <<27083, 62095>>, <<874, 11752>>, <<47563, 54982>>, <<12505, 22250>>, <<53229, 27501>>, <<23885, 21266>>, <<19241, 21420>>,
  <<58044, 1276>>, <<35769, 19315>>, <<25651, 4563>>, <<61334, 37254>>, <<19796, 61078>>, <<46381, 5459>>, <<9772, 46435>>, <<13384, 4057>>,
  <<11122, 3216>>, <<1295, 35128>>, <<37448, 25745>>, <<32724, 45559>>, <<51674, 61638>>, <<47559, 62999>>, <<56889, 8970>>, <<17805, 60089>>,
  <<62442, 61446>>, <<43570, 15907>>, <<7614, 8425>>, <<1911, 48740>>, <<38891, 42667>>, <<2526, 55981>>, <<17522, 10783>>, <<19522, 4987>>,
  <<14477, 33383>>, <<22941, 40182>>, <<37086, 11608>>, <<54690, 34400>>, <<36692, 56059>>, <<43517, 35258>>, <<37409, 44509>>, <<20762, 7823>>,
  <<2695, 33284>>, <<1904, 35811>>, <<63309, 25775>>, <<62585, 56473>>, <<61157, 5501>>, <<45686, 40368>>, <<31173, 45832>>, <<9412, 38854>>,
  <<36706, 40889>>, <<16222, 27733>>, <<5872, 28033>>, <<41175, 50797>>, <<22405, 15507>>, <<14837, 59795>>, <<40588, 50692>>, <<65250, 23051>>,
  <<55786, 57919>>, <<6922, 6776>>, <<44255, 61009>>, <<3223, 41008>>, <<32264, 46958>>, <<425, 5191>>, <<27618, 53348>>, <<1036, 50239>>,
  <<55252, 13307>>, <<26099, 33560>>, <<5197, 19325>>, <<3870, 48784>>, <<20484, 38280>>, <<43923, 57182>>, <<55160, 14629>>, <<3290, 48868>>,
  <<63809, 15182>>, <<37946, 22427>>, <<65385, 45005>>, <<19360, 3605>>, <<2959, 61230>>, <<61482, 16297>>, <<65017, 60349>>, <<64861, 299>>,
  <<63500, 54088>>, <<56391, 32975>>, <<8625, 58999>>, <<39769, 9200>>, <<46527, 10382>>, <<32708, 40340>>, <<5558, 37813>>, <<19633, 47718>>,
  <<32868, 2679>>, <<24860, 38786>>, <<8139, 52004>>, <<25650, 23165>>, <<62268, 63329>>, <<53970, 8995>>, <<39892, 58144>>, <<22333, 11979>>,
  <<13704, 17995>>, <<19336, 30018>>, <<41946, 41408>>, <<6834, 64206>>, <<30461, 56683>>, <<64156, 8819>>, <<8170, 6411>>, <<37386, 114>>,
  <<38050, 26115>>, <<43790, 27926>>, <<51624, 14946>>, <<23043, 20370>>, <<2776, 28765>>, <<56244, 39479>>, <<23457, 2381>>, <<55027, 9919>>,
  <<33669, 28417>>, <<56016, 5784>>, <<59575, 17757>>, <<9405, 48321>>, <<51103, 25439>>, <<46115, 31504>>, <<27247, 43096>>, <<802, 19018>>,
  <<65513, 44749>>, <<21899, 11954>>, <<38782, 59387>>, <<51825, 76>>, <<56292, 9564>>, <<16288, 8032>>, <<53825, 10369>>, <<6694, 54318>>,
  <<51305, 64630>>, <<49273, 62686>>, <<26585, 32434>>, <<61327, 45>>, <<34690, 24605>>, <<48270, 42640>>, <<16774, 39737>>, <<64583, 48159>>,
  <<14495, 8105>>, <<57445, 39172>>, <<40943, 25616>>, <<63556, 22497>>, <<43549, 65369>>, <<17445, 48841>>, <<28039, 3494>>, <<13499, 29902>>,
  <<9704, 16237>>, <<16569, 62967>>, <<53474, 37329>>, <<22793, 60482>>, <<23784, 32355>>, <<6258, 56344>>, <<29859, 1221>>, <<59741, 16023>>,
  <<560, 60771>>, <<57919, 48630>>, <<43556, 10253>>, <<17009, 56228>>, <<43649, 51019>>, <<26088, 20485>>, <<32196, 15180>>, <<28814, 59186>>,
  <<4305, 10406>>, <<52734, 54365>>, <<34194, 2864>>, <<30255, 43348>>, <<58885, 32959>>, <<48204, 49089>>, <<40357, 48583>>, <<19277, 10885>>,
  <<52752, 61741>>, <<31113, 46616>>, <<60461, 13317>>, <<61040, 18086>>, <<64344, 37359>>, <<58574, 5239>>, <<59463, 14787>>, <<23750, 58961>>,
  <<8631, 11510>>, <<45633, 15818>>, <<2443, 32706>>, <<8832, 21591>>, <<12607, 7909>>, <<23607, 27693>>, <<27090, 60149>>, <<30438, 159>>,
  <<15585, 30948>>, <<21122, 61313>>, <<20528, 9929>>, <<56173, 30127>>, <<38983, 40955>>, <<15669, 44594>>, <<55126, 13124>>, <<15002, 24899>>,
  <<45652, 40402>>, <<65334, 3558>>, <<6622, 26719>>, <<32714, 21652>>, <<39571, 12000>>, <<32148, 19076>>, <<647, 8556>>, <<7996, 30708>>,
  <<909, 1416>>, <<51430, 24612>>, <<48611, 17036>>, <<29423, 38364>>, <<26524, 56757>>, <<1991, 29435>>, <<28479, 43568>>, <<16900, 62905>>,
  <<45429, 50948>>, <<25055, 59156>>, <<39073, 40102>>, <<61238, 13671>>, <<17934, 31388>>, <<380, 62095>>, <<9111, 42962>>, <<52621, 61487>>,
  <<19320, 11377>>, <<47480, 35150>>, <<28373, 18341>>, <<47891, 29023>>, <<53445, 36761>>, <<32821, 8771>>, <<15431, 5349>>, <<24126, 24282>>,
  <<39190, 5055>>, <<22990, 5604>>, <<15630, 27335>>, <<57067, 7202>>, <<10035, 60961>>, <<37122, 64455>>, <<62211, 48405>>, <<8061, 1209>>,
  <<13003, 40494>>, <<10675, 157>>, <<49520, 29552>>, <<3676, 61864>>, <<34297, 15791>>, <<12330, 20861>>, <<13315, 51676>>, <<23970, 39402>>,
  <<37185, 21630>>, <<19941, 28344>>, <<1242, 9918>>, <<7410, 17823>>, <<20473, 53016>>, <<44664, 56195>>, <<56730, 15387>>, <<28865, 37357>>,
  <<14374, 30147>>, <<39484, 48425>>, <<4631, 32149>>, <<11629, 34916>>, <<51459, 3869>>, <<20756, 64291>>, <<12455, 11252>>, <<45906, 57925>>,
  <<34764, 698>>, <<60463, 20695>>, <<20041, 31194>>, <<52058, 3105>>, <<64776, 52681>>, <<8054, 55219>>, <<45440, 3381>>, <<22689, 56312>>,
  <<25605, 21799>>, <<12505, 51271>>, <<33393, 18877>>, <<47743, 42015>>, <<56226, 2622>>, <<34473, 15934>>, <<31906, 22491>>, <<62839, 7584>>,
  <<54970, 38907>>, <<40373, 54746>>, <<55787, 22622>>, <<1022, 25688>>, <<33954, 33143>>, <<56940, 6719>>, <<38109, 20209>>, <<13027, 47790>>,
  <<6697, 52855>>, <<60120, 8891>>, <<49445, 1714>>, <<32065, 12227>>, <<18049, 23757>>, <<60598, 53852>>, <<38233, 58304>>, <<42495, 43429>>,
  <<52757, 6238>>, <<48713, 10128>>, <<2377, 60271>>, <<11973, 52071>>, <<46111, 53994>>, <<19102, 17732>>, <<46045, 36956>>, <<39127, 49270>>,
  <<44266, 32153>>, <<64062, 30419>>, <<25373, 22427>>, <<1110, 62145>>, <<44602, 32767>>, <<48385, 38420>>, <<64316, 15480>>, <<44242, 42913>>,
  <<5795, 42913>>, <<51146, 33793>>, <<34424, 39296>>, <<15505, 54438>>, <<18559, 10314>>, <<37376, 27072>>, <<12462, 39631>>, <<22080, 20624>>,
  <<49825, 47562>>, <<18916, 40407>>, <<58641, 38643>>, <<44779, 29823>>, <<36464, 36343>>, <<54672, 13938>>, <<40719, 48283>>, <<47669, 41061>>,
  <<61707, 57457>>, <<18814, 34189>>, <<14837, 55906>>, <<8815, 64061>>, <<57307, 11178>>, <<61069, 27671>>, <<51118, 10396>>, <<54642, 47028>>,
  <<8036, 3019>>, <<5245, 17671>>, <<65324, 16791>>, <<18921, 43763>>, <<43042, 3479>>, <<52602, 4062>>, <<40533, 51940>>, <<45926, 48935>>,
  <<12073, 32702>>, <<29396, 35747>>, <<42266, 33146>>, <<14384, 29554>>, <<41335, 7074>>, <<54388, 65199>>, <<23663, 5285>>, <<14194, 3073>>,
  <<14762, 30935>>, <<21938, 32907>>, <<32644, 11086>>, <<100, 27786>>, <<14669, 29554>>, <<14950, 26710>>, <<57403, 618>>, <<5935, 2140>>,
  <<47390, 48035>>, <<62794, 410>>, <<12983, 50027>>, <<38980, 18251>>, <<18133, 22371>>, <<40612, 47221>>, <<46825, 54310>>, <<25281, 9174>>,
  <<57779, 56635>>, <<15670, 46786>>, <<38492, 51754>>, <<41896, 38565>>, <<15410, 27798>>, <<24140, 16043>>, <<30647, 2767>>, <<62045, 31004>>,
  <<22438, 62941>>, <<8326, 5241>>, <<64407, 19171>>, <<50946, 46291>>, <<7980, 47343>>, <<55996, 6462>>, <<63792, 5807>>, <<16782, 20977>>,
  <<47280, 46949>>, <<5254, 30846>>, <<13269, 53379>>, <<4088, 16652>>, <<11744, 23791>>, <<2527, 48601>>, <<58131, 9249>>, <<52055, 62441>>,
  <<12723, 55133>>, <<53794, 51623>>, <<64942, 48879>>, <<47178, 360>>, <<54112, 35997>>, <<10159, 21072>>, <<29669, 20442>>, <<6898, 63343>>,
  <<12925, 11852>>, <<61095, 34195>>, <<16709, 62329>>, <<10882, 420>>, <<64527, 13158>>, <<3824, 30685>>, <<1371, 28659>>, <<63301, 31323>>,
  <<1163, 24489>>, <<62214, 417>>, <<55572, 53054>>, <<34831, 41945>>, <<9618, 12792>>, <<65047, 2905>>, <<50427, 27213>>, <<45539, 53338>>,
  <<26773, 21278>>, <<53552, 48240>>, <<51001, 28602>>, <<3690, 18998>>, <<8627, 59902>>, <<19002, 10957>>, <<13072, 59588>>, <<33117, 49006>>,
  <<3396, 44885>>, <<55035, 9426>>, <<55258, 47726>>, <<32070, 46030>>, <<9568, 23498>>, <<39121, 5407>>, <<19462, 22437>>, <<8234, 48089>>,
  <<24476, 12573>>, <<60190, 13913>>, <<1007, 49023>>, <<5175, 63616>>, <<26735, 41482>>, <<54562, 36334>>, <<4981, 8042>>, <<34269, 42657>>,
  <<22269, 58405>>, <<56939, 53559>>, <<46927, 4848>>, <<30780, 21695>>, <<60371, 3010>>, <<17812, 59446>>, <<49327, 16427>>, <<60043, 40316>>,
  <<56160, 63694>>, <<1653, 23886>>, <<40231, 37222>>, <<39054, 40691>>, <<24323, 61720>>, <<53886, 44699>>, <<3805, 15424>>, <<61050, 5805>>,
  <<61218, 42316>>, <<26793, 54396>>, <<22333, 39552>>, <<24793, 9220>>, <<42793, 26499>>, <<394, 2344>>, <<35103, 48790>>, <<31078, 65052>>,
  <<8552, 48698>>, <<4627, 8931>>, <<21918, 4857>>, <<52876, 50652>>, <<63763, 57562>>, <<47846, 49743>>, <<54882, 25092>>, <<14894, 2940>>,
  <<57613, 34541>>, <<50229, 13057>>, <<19652, 54339>>, <<54667, 5842>>, <<13883, 46839>>, <<60337, 7237>>, <<48609, 62724>>, <<35080, 32679>>,
  <<44681, 20786>>, <<26053, 15861>>, <<18824, 62663>>, <<17359, 18959>>, <<26061, 53361>>, <<34974, 13029>>, <<9239, 24549>>, <<54851, 31737>>,
  <<54225, 22158>>, <<29883, 10143>>, <<63103, 29886>>, <<5478, 3299>>, <<51601, 43553>>, <<36454, 7188>>, <<25113, 32814>>, <<6847, 3344>>,
  <<54562, 13928>>, <<58587, 33501>>, <<9450, 10812>>, <<41470, 35437>>, <<62951, 11108>>, <<55003, 25172>>, <<20129, 15111>>, <<62280, 59414>>,
  <<62669, 18200>>, <<63848, 44154>>, <<63921, 20030>>, <<17882, 51911>>, <<57664, 15864>>, <<47823, 44161>>, <<51928, 45417>>, <<16996, 20471>>,
  <<27731, 43977>>, <<10104, 14050>>, <<4452, 33989>>, <<4751, 57391>>, <<61054, 63403>>, <<31879, 46057>>, <<23192, 35607>>, <<19398, 53241>>,
  <<8672, 50799>>, <<63609, 53701>>, <<4388, 54236>>, <<18617, 6452>>, <<21112, 14971>>, <<11263, 8298>>, <<29856, 42228>>, <<30376, 52162>>,
  <<4286, 18757>>, <<61879, 10551>>, <<1537, 54647>>, <<10833, 37387>>, <<44449, 42350>>, <<25504, 5489>>, <<61026, 7809>>, <<39306, 61093>>,
  <<48002, 25198>>, <<25606, 8>>, <<55136, 26832>>, <<23268, 21080>>, <<63702, 45458>>, <<35080, 44330>>, <<30088, 33049>>, <<46562, 59691>>,
  <<46311, 4704>>, <<29085, 36810>>, <<35374, 58854>>, <<47041, 24647>>, <<5254, 60978>>, <<33010, 44234>>, <<64891, 16905>>, <<13495, 57514>>,
  <<11402, 58599>>, <<1213, 4106>>, <<51888, 65210>>, <<17755, 45268>>, <<43081, 48983>>, <<53782, 49988>>, <<48814, 27302>>, <<18660, 30476>>,
  <<49669, 32509>>, <<9593, 35748>>, <<27910, 20048>>, <<16225, 42068>>, <<47526, 553>>, <<43779, 36536>>, <<13072, 23786>>, <<3983, 14224>>,
  <<40388, 43849>>, <<60910, 30839>>, <<15244, 52450>>, <<35564, 53020>>, <<24323, 42498>>, <<22498, 21475>>, <<37624, 8947>>, <<51365, 19819>>,
  <<30178, 18199>>, <<32170, 35486>>, <<59236, 60917>>, <<46271, 37970>>, <<44630, 28465>>, <<49585, 64901>>, <<5640, 58889>>, <<27137, 53895>>,
  <<40048, 4630>>, <<58101, 58150>>, <<58566, 28954>>, <<62351, 43011>>, <<28263, 9951>>, <<55858, 57932>>, <<26251, 41756>>, <<53684, 35647>>,
  <<27306, 57071>>, <<58420, 12580>>, <<54730, 24209>>, <<47459, 41823>>, <<7280, 48260>>, <<57598, 49991>>, <<52877, 43354>>, <<63768, 4623>>,
  <<40538, 27349>>, <<6749, 42709>>, <<38996, 8358>>, <<10015, 56792>>, <<33745, 1910>>, <<38261, 10695>>, <<9314, 8493>>, <<38023, 58418>>,
  <<20450, 9096>>, <<36946, 48676>>, <<33940, 41356>>, <<1855, 24148>>, <<28728, 57072>>, <<34166, 15603>>, <<42761, 57414>>, <<27982, 52618>>,
  <<21617, 11227>>, <<25410, 30166>>, <<16236, 22878>>, <<49714, 564>>, <<26466, 51723>>, <<35103, 36296>>, <<54887, 50652>>, <<37877, 21946>>,
  <<45669, 20011>>, <<45182, 59969>>, <<36757, 59064>>, <<3898, 19194>>, <<23259, 7243>>, <<24803, 44989>>, <<41162, 52574>>, <<58505, 48621>>,
  <<6028, 16175>>, <<18204, 44680>>, <<41343, 430>>, <<11163, 57518>>, <<23122, 53988>>, <<49371, 23871>>, <<29570, 4576>>, <<2177, 37376>>,
  <<50747, 46608>>, <<61891, 59212>>, <<7084, 36536>>, <<32105, 30789>>, <<64538, 53012>>, <<37281, 45572>>, <<57198, 52566>>, <<45408, 43850>>,
  <<64353, 59709>>, <<3196, 17079>>, <<15333, 38147>>, <<41205, 64060>>, <<52513, 22614>>, <<1623, 17745>>, <<39205, 24644>>, <<1094, 34076>>,
  <<59579, 60186>>, <<63734, 64088>>, <<15070, 17456>>, <<40799, 57842>>, <<25951, 64552>>, <<63576, 23112>>, <<47940, 29545>>, <<13476, 65414>>,
  <<11776, 15732>>, <<20148, 53286>>, <<37104, 50763>>, <<18333, 18762>>, <<53618, 50402>>, <<29512, 50782>>, <<11290, 59808>>, <<27524, 26510>>,
  <<11498, 15915>>, <<60548, 32310>>, <<47998, 23078>>, <<25240, 4563>>, <<35646, 52114>>, <<17810, 37028>>, <<3926, 10341>>, <<12930, 446>>,
  <<63035, 54381>>, <<26719, 51934>>, <<46889, 196>>, <<54144, 38857>>, <<6763, 24392>>, <<36604, 59416>>, <<13724, 57764>>, <<18783, 9674>>,
  <<45410, 27443>>, <<43436, 59393>>, <<61342, 47845>>, <<14203, 32120>>, <<48439, 17498>>, <<10420, 4433>>, <<63790, 2719>>, <<34967, 388>>,
  <<26974, 36414>>, <<44265, 28512>>, <<2914, 49475>>, <<21714, 28117>>, <<7302, 11676>>, <<2588, 42217>>, <<63334, 24794>>, <<20906, 15984>>,
  <<3799, 63679>>, <<38019, 55709>>, <<25095, 60450>>, <<25999, 19674>>, <<11201, 6539>>, <<25251, 62702>>, <<35627, 3306>>, <<30122, 26646>>,
  <<25317, 56012>>, <<14504, 48616>>, <<55439, 43234>>, <<10415, 34506>>, <<44084, 60685>>, <<21853, 55124>>, <<1426, 33013>>, <<38778, 53992>>,
  <<55925, 5331>>, <<54490, 13441>>, <<23128, 6311>>, <<10132, 27200>>, <<41078, 36158>>, <<38808, 39851>>, <<29056, 44806>>, <<53386, 4671>>,
  <<56407, 48115>>, <<55893, 31693>>, <<12513, 14058>>, <<41575, 41623>>, <<27155, 3127>>, <<14583, 13872>>, <<2732, 58301>>, <<35712, 42713>>,
  <<44012, 29031>>, <<45114, 53685>>, <<24495, 55288>>, <<36489, 54262>>, <<63174, 14289>>, <<18816, 63326>>, <<56611, 52186>>, <<11967, 40219>>,
  <<39743, 22468>>, <<59895, 20665>>, <<38864, 20673>>, <<37518, 36213>>, <<6500, 48268>>, <<20446, 51018>>, <<50765, 36292>>, <<27271, 7195>>,
  <<49293, 32807>>, <<31571, 31993>>, <<51027, 56413>>, <<12919, 15156>>, <<8146, 26730>>, <<31732, 9552>>, <<10337, 55423>>, <<52024, 2534>>,
  <<17874, 57356>>, <<24820, 20412>>, <<55438, 11152>>, <<44325, 3824>>, <<41247, 42162>>, <<31521, 1796>>, <<58193, 61776>>, <<18767, 40213>>,
  <<44653, 37162>>, <<54827, 15820>>, <<17648, 14852>>, <<44018, 13737>>, <<33886, 31466>>, <<31990, 31094>>, <<39175, 64785>>, <<28425, 43151>>,
  <<35857, 20645>>, <<1979, 42260>>, <<4539, 64884>>, <<4122, 7680>>, <<27422, 56713>>, <<28618, 23434>>, <<886, 23019>>, <<14657, 11909>>,
  <<64477, 37272>>, <<49993, 50954>>, <<30298, 5990>>, <<58821, 62347>>, <<16396, 53657>>, <<38652, 51221>>, <<9016, 10820>>, <<3752, 36419>>,
  <<12500, 19875>>, <<133, 28889>>, <<26328, 29964>>, <<9698, 48106>>, <<9678, 1721>>, <<51981, 31934>>, <<24556, 22174>>, <<10740, 9072>>,
  <<34479, 54921>>, <<17198, 5749>>, <<17238, 27293>>, <<10223, 20939>>, <<22453, 41589>>, <<56246, 37597>>, <<64476, 21434>>, <<46128, 625>>,
  <<33638, 25092>>, <<45139, 12390>>, <<53156, 34376>>, <<48731, 12763>>, <<60255, 60415>>, <<17842, 15659>>, <<11696, 50064>>, <<30087, 21320>>,
  <<56980, 17721>>, <<29462, 35132>>, <<43214, 1514>>, <<54605, 30729>>, <<23067, 15084>>, <<47946, 26935>>, <<23583, 3475>>, <<12765, 24405>>,
  <<28794, 2624>>, <<57903, 30866>>, <<64973, 17494>>, <<21706, 30861>>, <<43917, 51034>>, <<24788, 2679>>, <<61859, 47079>>, <<36933, 488>>,
  <<25683, 45789>>, <<28973, 19281>>, <<54417, 58337>>, <<34018, 7281>>, <<29461, 5809>>, <<22626, 2705>>, <<51137, 21439>>, <<62957, 42812>>,
  <<65318, 21127>>, <<12981, 54850>>, <<884, 40114>>, <<65265, 45716>>, <<12173, 18283>>, <<37014, 29846>>, <<32206, 55136>>, <<12749, 16389>>,
  <<27580, 33515>>, <<16122, 18253>>, <<36584, 32853>>, <<48238, 52981>>, <<14430, 18158>>, <<39696, 58163>>, <<5013, 32399>>, <<53203, 8311>>,
  <<4776, 61222>>, <<30184, 44607>>, <<22865, 32165>>, <<42770, 17196>>, <<52461, 1398>>, <<41932, 30353>>, <<21346, 62468>>, <<34125, 20593>>,
  <<38589, 58347>>, <<63881, 62708>>, <<26737, 61636>>, <<61850, 38025>>, <<9849, 29847>>, <<13732, 38133>>, <<41352, 41040>>, <<25196, 49410>>,
  <<19334, 6895>>, <<46398, 29110>>, <<57244, 2175>>, <<47688, 58701>>, <<28337, 45053>>, <<40602, 44052>>, <<15096, 60583>>, <<43701, 40020>>,
  <<46805, 9800>>, <<42464, 64089>>, <<57483, 41346>>, <<6880, 1801>>, <<2377, 62350>>, <<36164, 12048>>, <<12838, 34414>>, <<65223, 26726>>,
  <<40176, 63797>>, <<64812, 42067>>, <<46238, 60982>>, <<3041, 8119>>, <<62137, 64053>>, <<38507, 52966>>, <<22698, 30299>>, <<41726, 14712>>,
  <<45028, 46849>>, <<38577, 17777>>, <<51768, 28077>>, <<39574, 38197>>, <<35330, 63272>>, <<53238, 18028>>, <<51980, 58850>>, <<41685, 3189>>,
  <<56566, 8148>>, <<63487, 34735>>, <<7931, 30670>>, <<12287, 34166>>, <<6588, 51888>>, <<50436, 9407>>, <<9872, 11083>>, <<50648, 49158>>,
  <<61881, 48705>>, <<43923, 10807>>, <<17461, 60045>>, <<59796, 43622>>, <<64046, 41162>>, <<65189, 14796>>, <<35844, 21462>>, <<53192, 53957>>,
  <<23596, 18787>>, <<7280, 3699>>, <<26871, 26741>>, <<57627, 20313>>, <<19878, 35884>>, <<6322, 39761>>, <<26254, 2473>>, <<17676, 62520>>,
  <<27032, 55133>>, <<28548, 56312>>, <<31321, 6337>>, <<6432, 54156>>, <<6273, 33951>>, <<10763, 54339>>, <<8239, 27175>>, <<23059, 34097>>,
  <<10585, 52130>>, <<24494, 52536>>, <<24226, 48072>>, <<43574, 6140>>, <<4161, 13482>>, <<59693, 64854>>, <<358, 4085>>, <<64512, 35119>>,
  <<16063, 7601>>, <<9552, 2257>>, <<62951, 48453>>, <<30607, 47128>>, <<60608, 53636>>, <<57102, 58046>>, <<33668, 41701>>, <<32307, 7581>>,
  <<10906, 6801>>, <<63805, 11402>>, <<8779, 58785>>, <<15369, 63690>>, <<59744, 51454>>, <<53397, 29567>>, <<54734, 45417>>, <<12313, 2096>>,
  <<10438, 19951>>, <<55093, 8529>>, <<43690, 23822>>, <<49401, 14434>>, <<12156, 32789>>, <<59213, 45749>>, <<54167, 30132>>, <<5055, 49133>>,
  <<6948, 711>>, <<59890, 35370>>, <<50880, 37010>>, <<14637, 14053>>, <<15886, 39206>>, <<13938, 31325>>, <<43174, 58474>>, <<21539, 30077>>,
  <<60666, 18491>>, <<56220, 18107>>, <<11120, 54298>>, <<15526, 6270>>, <<55134, 34755>>, <<56529, 18472>>, <<9895, 45617>>, <<11925, 36137>>,
  <<56477, 25955>>, <<59133, 40764>>, <<39169, 48376>>, <<64863, 24262>>, <<54536, 39843>>, <<43085, 7434>>, <<34089, 30901>>, <<48625, 33978>>,
  <<35917, 57562>>, <<57817, 40070>>, <<18260, 39893>>, <<59508, 29017>>, <<50391, 35319>>, <<54321, 14150>>, <<63766, 7731>>, <<26896, 30957>>,
  <<45273, 50165>>, <<25307, 53872>>, <<35932, 57133>>, <<59282, 22542>>, <<526, 378>>, <<54712, 15534>>, <<20242, 64583>>, <<61402, 4020>>,
  <<35148, 21852>>, <<16985, 27900>>, <<34311, 38082>>, <<57810, 1985>>, <<49334, 16535>>, <<6325, 40259>>, <<35071, 27665>>, <<63241, 1476>>,
  <<40247, 36923>>, <<58192, 30777>>, <<39482, 48461>>, <<42557, 48817>>, <<62378, 55971>>, <<19495, 3554>>, <<54755, 61844>>, <<64275, 20133>>,
  <<40589, 15437>>, <<15120, 50495>>, <<54566, 43740>>, <<11922, 58039>>, <<27843, 16104>>, <<49268, 4981>>, <<51993, 7025>>, <<12146, 63049>>,
  <<43949, 27253>>, <<6828, 44912>>, <<43117, 29002>>, <<54703, 4897>>, <<11775, 37600>>, <<50578, 30677>>, <<45506, 19216>>, <<49513, 49398>>,
  <<28205, 46913>>, <<16297, 30717>>, <<21412, 36058>>, <<59114, 32708>>, <<35153, 39065>>, <<62098, 21400>>, <<50550, 45374>>, <<28230, 27080>>,
  <<44712, 6921>>, <<28642, 13840>>, <<4411, 56801>>, <<31782, 59047>>, <<19442, 63557>>, <<44269, 36179>>, <<43829, 42290>>, <<3878, 31548>>,
  <<10740, 8594>>, <<52674, 9990>>, <<36, 57072>>, <<58536, 33080>>, <<13666, 47511>>, <<51872, 21314>>, <<27682, 20615>>, <<63559, 8947>>,
  <<25682, 29606>>, <<24862, 3066>>, <<57111, 32608>>, <<44301, 29027>>, <<30286, 36302>>, <<35076, 29445>>, <<25321, 18465>>, <<29882, 38392>>,
  <<47893, 47213>>, <<10689, 50901>>, <<32774, 44087>>, <<24823, 59309>>, <<22366, 24855>>, <<10166, 35636>>, <<59631, 823>>, <<26609, 54161>>,
  <<17732, 17199>>, <<2429, 61483>>, <<10148, 32821>>, <<29760, 6425>>, <<6814, 59013>>, <<46897, 21741>>, <<39959, 47136>>, <<23340, 48709>>,
  <<35558, 33928>>, <<58382, 48897>>, <<65473, 40717>>, <<52858, 4015>>, <<46347, 57850>>, <<40053, 43505>>, <<22954, 11184>>, <<64540, 64416>>,
  <<22347, 14430>>, <<15627, 44436>>, <<40310, 54109>>, <<23505, 32062>>, <<39173, 21202>>, <<255, 49383>>, <<40329, 44694>>, <<31335, 691>>,
  <<53114, 15063>>, <<41532, 26316>>, <<23179, 18604>>, <<30756, 46113>>, <<28084, 45483>>, <<15463, 61769>>, <<40757, 36247>>, <<16840, 20272>>,
  <<18127, 38779>>, <<32304, 33171>>, <<14407, 24516>>, <<10410, 31351>>, <<1939, 8791>>, <<32810, 35313>>, <<51220, 33997>>, <<34721, 42705>>,
  <<768, 45424>>, <<57415, 44139>>, <<52120, 36554>>, <<251, 34767>>, <<59680, 48538>>, <<8504, 56758>>, <<23700, 48401>>, <<40588, 23888>>,
  <<12619, 24944>>, <<5301, 62738>>, <<52578, 26909>>, <<63649, 58817>>, <<50101, 24863>>, <<5538, 10756>>, <<20712, 14777>>, <<18382, 17129>>,
  <<22278, 30141>>, <<22774, 13900>>, <<23117, 57224>>, <<23998, 1247>>, <<37097, 59500>>, <<54417, 38543>>, <<51234, 15314>>, <<16736, 2320>>,
  <<21154, 30101>>, <<2648, 45968>>, <<30686, 20400>>, <<854, 41648>>, <<14073, 60678>>, <<8309, 42157>>, <<8192, 54850>>, <<27956, 12582>>,
  <<16201, 18268>>, <<44023, 5546>>, <<53420, 1487>>, <<46492, 19938>>, <<1804, 38886>>, <<6810, 39560>>, <<58027, 15167>>, <<23067, 56056>>,
  <<55755, 35400>>, <<18529, 28267>>, <<54648, 25333>>, <<62113, 46399>>, <<58773, 33900>>, <<34662, 58583>>, <<29699, 16802>>, <<14809, 55188>>,
  <<34887, 45182>>, <<13650, 26964>>, <<56576, 42534>>, <<28138, 46241>>, <<58949, 41786>>, <<47715, 60055>>, <<34423, 869>>, <<56956, 3947>>,
  <<39346, 42235>>, <<49918, 37423>>, <<31756, 56968>>, <<13185, 12165>>, <<6084, 43842>>, <<57217, 38246>>, <<54250, 4228>>, <<45540, 425>>,
  <<12770, 61342>>, <<39236, 17653>>, <<41329, 63601>>, <<55632, 65000>>, <<7448, 54155>>, <<51564, 22065>>, <<48577, 739>>, <<51902, 62715>>,
  <<31180, 38752>>, <<38162, 14761>>, <<3377, 50289>>, <<11979, 41949>>, <<3267, 59767>>, <<41169, 24214>>, <<25532, 13088>>, <<19889, 14718>>,
  <<59190, 44551>>, <<35484, 38303>>, <<61134, 31648>>, <<30763, 32510>>, <<29481, 14589>>, <<64895, 54602>>, <<23301, 43032>>, <<46553, 32882>>,
  <<3625, 33506>>, <<54426, 45720>>, <<23124, 41012>>, <<48662, 58188>>, <<11391, 13417>>, <<4042, 24206>>, <<48172, 13937>>, <<12527, 212>>,
  <<29246, 41118>>, <<3823, 52917>>, <<16810, 53681>>, <<27102, 51573>>, <<59323, 39085>>, <<38048, 60442>>, <<51891, 58021>>, <<23549, 58811>>,
  <<3497, 21459>>, <<13702, 1311>>, <<58469, 17378>>, <<15381, 57727>>, <<54594, 11644>>, <<34777, 5030>>, <<2334, 36103>>, <<24824, 3474>>,
  <<4003, 34804>>, <<4517, 9888>>, <<38952, 14366>>, <<21738, 34949>>, <<8730, 40418>>, <<2556, 23595>>, <<29199, 19948>>, <<1942, 29702>>,
  <<39274, 3196>>, <<22902, 24078>>, <<37162, 54727>>, <<40890, 27005>>, <<5206, 5475>>, <<22509, 28984>>, <<5680, 24014>>, <<11098, 31104>>,
  <<48009, 58221>>, <<53259, 38019>>, <<10989, 39835>>, <<10686, 15803>>, <<31300, 16065>>, <<59425, 61957>>, <<24170, 27392>>, <<61644, 33121>>,
  <<29573, 30611>>, <<60239, 52441>>, <<12554, 766>>, <<3399, 57282>>, <<57454, 52319>>, <<53310, 27897>>, <<49738, 52465>>, <<4052, 54967>>,
  <<53453, 62476>>, <<46582, 42409>>, <<43316, 2536>>, <<65362, 47082>>, <<54775, 58330>>, <<51938, 22230>>, <<13806, 48696>>, <<3499, 18748>>,
  <<3521, 27308>>, <<55457, 35291>>, <<16987, 51778>>, <<20241, 53926>>, <<58738, 33466>>, <<52921, 4459>>, <<38375, 40752>>, <<3298, 46163>>,
  <<42549, 46992>>, <<7633, 36736>>, <<35239, 48798>>, <<64301, 8327>>, <<10535, 32155>>, <<13804, 42070>>, <<14365, 28065>>, <<49176, 4010>>,
  <<32340, 41902>>, <<40261, 27279>>, <<64618, 223>>, <<18378, 31317>>, <<3825, 21099>>, <<12551, 14625>>, <<22549, 44764>>, <<15397, 57537>>,
  <<1547, 32282>>, <<20743, 24700>>, <<18722, 38411>>, <<33299, 845>>, <<29482, 18886>>, <<19132, 4787>>, <<61659, 10708>>, <<36998, 2026>>,
  <<39050, 11147>>, <<4502, 52758>>, <<49999, 16570>>, <<38505, 6034>>, <<46724, 6959>>, <<47993, 54078>>, <<30754, 25658>>, <<63826, 1755>>,
  <<46239, 53411>>, <<5153, 21435>>, <<2316, 33044>>, <<64462, 37103>>, <<49255, 37562>>, <<6553, 25962>>, <<39913, 5742>>, <<21689, 17723>>,
  <<30937, 21011>>, <<34980, 2840>>, <<62964, 51576>>, <<51661, 6581>>, <<49245, 49970>>, <<5844, 61516>>, <<34092, 21822>>, <<3763, 59928>>,
  <<18456, 28698>>, <<57653, 26542>>, <<49220, 32880>>, <<57715, 783>>, <<6858, 48074>>, <<3869, 14906>>, <<46830, 63136>>, <<59945, 44368>>,
  <<43610, 18976>>, <<36848, 16419>>, <<59464, 2894>>, <<17402, 46592>>, <<38859, 44427>>, <<43504, 4344>>, <<46917, 55759>>, <<23021, 15512>>,
  <<57138, 3278>>, <<48038, 23091>>, <<38024, 39660>>, <<8416, 10008>>, <<55715, 65055>>, <<35468, 23045>>, <<15031, 43256>>, <<39207, 42863>>,
  <<33472, 60493>>, <<63142, 18155>>, <<33277, 22473>>, <<48522, 29490>>, <<19532, 47344>>, <<39509, 20032>>, <<49415, 35671>>, <<45079, 58791>>,
  <<58642, 29111>>, <<16066, 48710>>, <<50996, 54798>>, <<59032, 41274>>, <<21636, 30967>>, <<15583, 65187>>, <<4523, 39201>>, <<23907, 61347>>,
  <<55346, 61896>>, <<7205, 31325>>, <<56439, 42264>>, <<20190, 28719>>, <<61954, 18023>>, <<63698, 2895>>, <<39882, 15024>>, <<34606, 6596>>,
  <<63694, 44713>>, <<56313, 47884>>, <<35139, 10124>>, <<48227, 16287>>, <<8204, 57817>>, <<62307, 4640>>, <<7727, 39740>>, <<48904, 2916>>,
  <<58138, 48665>>, <<34799, 10710>>, <<26794, 27224>>, <<50557, 63128>>, <<54402, 6716>>, <<43568, 3910>>, <<26722, 13763>>, <<52094, 2814>>,
  <<58050, 43595>>, <<26219, 1991>>, <<19226, 42046>>, <<39573, 39252>>, <<1725, 20717>>, <<18774, 7535>>, <<596, 2638>>, <<20434, 58880>>,
  <<20987, 7442>>, <<44517, 846>>, <<28700, 2584>>, <<21462, 22690>>, <<40392, 38811>>, <<32816, 58295>>, <<32289, 33352>>, <<47702, 20239>>,
  <<42584, 21508>>, <<47822, 61437>>, <<31687, 17009>>, <<18335, 16948>>, <<39204, 10115>>, <<4845, 43671>>, <<32155, 19901>>, <<36586, 2260>>,
  <<34659, 60007>>, <<18947, 6037>>, <<28754, 41320>>, <<17994, 17379>>, <<929, 20080>>, <<4010, 63843>>, <<28708, 63001>>, <<34977, 64729>>,
  <<5474, 50548>>, <<19437, 13032>>, <<59674, 16613>>, <<18510, 42468>>, <<62462, 48645>>, <<16812, 61861>>, <<41956, 17981>>, <<12311, 54863>>,
  <<49334, 63477>>, <<4331, 3093>>, <<21709, 61850>>, <<63969, 8126>>, <<46686, 31462>>, <<33303, 51474>>, <<64285, 1804>>, <<13961, 27637>>,
  <<54582, 65505>>, <<18169, 3881>>, <<46304, 8918>>, <<27244, 4510>>, <<10936, 27042>>, <<1203, 6433>>, <<39828, 40983>>, <<24154, 54329>>,
  <<33071, 46901>>, <<44790, 38938>>, <<18069, 22106>>, <<32405, 62340>>, <<56201, 57756>>, <<54970, 61389>>, <<50350, 38207>>, <<26473, 43759>>,
  <<25817, 25177>>, <<20293, 64946>>, <<16277, 31314>>, <<30809, 49538>>, <<30784, 37047>>, <<46441, 52350>>, <<32556, 35437>>, <<15078, 61520>>,
  <<49713, 63316>>, <<40967, 63451>>, <<52890, 16194>>, <<23687, 19182>>, <<38810, 39963>>, <<2620, 53117>>, <<28507, 34813>>, <<20089, 45158>>,
  <<48459, 18110>>, <<46057, 19027>>, <<20370, 8625>>, <<14557, 43751>>, <<49036, 34559>>, <<56266, 40240>>, <<29545, 53410>>, <<35388, 59830>>,
  <<48638, 19974>>, <<24592, 46894>>, <<39431, 9122>>, <<31003, 43231>>, <<27449, 63870>>, <<58131, 41803>>, <<10732, 1110>>, <<23283, 46224>>,
  <<3270, 21584>>, <<15422, 3506>>, <<7455, 38507>>, <<62075, 61272>>, <<53876, 47549>>, <<912, 61492>>, <<20989, 18920>>, <<51514, 9495>>,
  <<53535, 44112>>, <<25294, 55513>>, <<12213, 21759>>, <<24991, 9783>>, <<47559, 30897>>, <<9886, 50023>>, <<46907, 21613>>, <<61498, 39365>>,
  <<35367, 47952>>, <<62764, 4022>>, <<25532, 18638>>, <<63698, 6180>>, <<8087, 52283>>, <<55575, 42126>>, <<22025, 32247>>, <<56403, 13343>>,
  <<50942, 50373>>, <<44546, 54535>>, <<46359, 11340>>, <<52022, 6825>>, <<15263, 6979>>, <<49186, 60451>>, <<27508, 13458>>, <<45091, 11860>>,
  <<45307, 26067>>, <<54365, 45075>>, <<9052, 19069>>, <<51539, 37305>>, <<35977, 42718>>, <<44642, 35550>>, <<20487, 6433>>, <<52472, 3486>>,
  <<1050, 35336>>, <<19734, 32444>>, <<52819, 63121>>, <<55166, 55065>>, <<62050, 47018>>, <<7937, 35287>>, <<40034, 1896>>, <<12605, 40548>>,
  <<9019, 29731>>, <<40042, 17938>>, <<9139, 41656>>, <<42394, 13528>>, <<1237, 54623>>, <<17567, 27389>>, <<38276, 36421>>, <<698, 26852>>,
  <<50703, 38946>>, <<10344, 57315>>, <<55763, 55002>>, <<65263, 14672>>, <<20591, 47893>>, <<7439, 46574>>, <<4641, 35381>>, <<10379, 56274>>,
  <<4935, 28322>>, <<27166, 35807>>, <<41134, 44567>>, <<46572, 55414>>, <<44386, 14425>>, <<49100, 36689>>, <<54664, 9399>>, <<60925, 19927>>,
  <<61889, 64296>>, <<10054, 4516>>, <<32523, 21058>>, <<35155, 125>>, <<48827, 21277>>, <<7722, 52033>>, <<36558, 36751>>, <<23557, 38027>>,
  <<1012, 26307>>, <<15609, 25234>>, <<37875, 34544>>, <<359, 49475>>, <<57564, 1709>>, <<6179, 24676>>, <<49247, 21505>>, <<37767, 60823>>,
  <<40865, 44149>>, <<58584, 5048>>, <<23121, 46124>>, <<34071, 50170>>, <<24981, 12036>>, <<50426, 25334>>, <<63482, 15543>>, <<40133, 23314>>,
  <<10080, 62102>>, <<23708, 21755>>, <<26545, 25933>>, <<2555, 4362>>, <<777, 47917>>, <<56609, 14877>>, <<12851, 56558>>, <<24405, 45852>>,
  <<59391, 53616>>, <<1341, 33898>>, <<60157, 18787>>, <<4228, 33175>>, <<15773, 42623>>, <<50649, 44266>>, <<11757, 61493>>, <<57392, 20765>>,
  <<39130, 26751>>, <<27081, 31196>>, <<7455, 57887>>, <<33670, 27897>>, <<19926, 24091>>, <<29903, 28570>>, <<18689, 52521>>, <<58642, 18236>>,
  <<7740, 34142>>, <<552, 4921>>, <<48242, 441>>, <<4246, 51184>>, <<64289, 63303>>, <<30544, 46708>>, <<20054, 61748>>, <<41540, 46768>>,
  <<48440, 6374>>, <<49814, 57565>>, <<7651, 14748>>, <<63760, 42719>>, <<45473, 65158>>, <<12111, 60374>>, <<2293, 45167>>, <<23820, 3987>>,
  <<42872, 41886>>, <<27957, 43319>>, <<19522, 51917>>, <<50351, 52929>>, <<29392, 26370>>, <<55104, 56971>>, <<6747, 8497>>, <<47301, 54367>>,
  <<62099, 21833>>, <<44741, 33350>>, <<55211, 13330>>, <<26811, 34925>>, <<41086, 10047>>, <<9906, 40939>>, <<5051, 61059>>, <<12029, 30937>>,
  <<10619, 15142>>, <<34791, 8726>>, <<15364, 61780>>, <<50959, 25047>>, <<5885, 39228>>, <<56493, 38378>>, <<53422, 50228>>, <<6301, 63929>>,
  <<58136, 24851>>, <<25658, 47793>>, <<12676, 20096>>, <<23635, 23319>>, <<8346, 21464>>, <<20801, 63431>>, <<1613, 6222>>, <<26470, 52286>>,
  <<2719, 358>>, <<58855, 52050>>, <<10247, 19201>>, <<22653, 11720>>, <<47343, 36336>>, <<10424, 40150>>, <<13922, 62616>>, <<6678, 8935>>,
  <<63844, 34893>>, <<36480, 57009>>, <<65137, 58810>>, <<19384, 20019>>, <<41335, 29916>>, <<50225, 39235>>, <<9217, 50180>>, <<8363, 57714>>,
  <<37105, 35282>>, <<48706, 33878>>, <<4766, 37122>>, <<53349, 11583>>, <<16725, 12808>>, <<47026, 12558>>, <<50147, 4354>>, <<21056, 17168>>,
  <<17198, 60078>>, <<52838, 18975>>, <<9609, 15738>>, <<1664, 36894>>, <<65468, 55769>>, <<8886, 43497>>, <<13467, 39622>>, <<998, 56990>>,
  <<31387, 16449>>, <<6613, 31740>>, <<3686, 26717>>, <<16459, 31456>>, <<4042, 44613>>, <<45858, 14450>>, <<62319, 52103>>, <<31012, 8200>>,
  <<34709, 61364>>, <<48488, 3551>>, <<14864, 42645>>, <<38356, 33546>>, <<56554, 27592>>, <<60823, 38311>>, <<58880, 17223>>, <<50932, 25233>>,
  <<14651, 21520>>, <<730, 9270>>, <<35135, 40563>>, <<52000, 56474>>, <<54333, 59211>>, <<31999, 1470>>, <<38243, 10670>>, <<8021, 41432>>,
  <<61430, 44302>>, <<22215, 11166>>, <<45389, 25180>>, <<14109, 57490>>, <<62171, 40022>>, <<55536, 40247>>, <<42723, 2970>>, <<20630, 5779>>,
  <<53616, 55813>>, <<40110, 62093>>, <<35921, 29801>>, <<56569, 37529>>, <<15437, 46071>>, <<60088, 49219>>, <<38102, 34277>>, <<64375, 39132>>,
  <<10190, 42988>>, <<9293, 48274>>, <<38743, 23829>>, <<45764, 23363>>, <<34283, 40116>>, <<46237, 335>>, <<65270, 34520>>, <<3922, 5414>>,
  <<20875, 64353>>, <<12420, 37587>>, <<12762, 5052>>, <<4879, 1893>>, <<37807, 62177>>, <<31488, 63290>>, <<138, 3743>>, <<10122, 27142>>,
  <<48457, 46781>>, <<17593, 57977>>, <<63804, 30034>>, <<48925, 20290>>, <<15855, 60051>>, <<51782, 28443>>, <<22295, 37061>>, <<15535, 42929>>,
  <<10154, 15321>>, <<20646, 20401>>, <<3892, 62051>>, <<3735, 43486>>, <<1621, 16639>>, <<37540, 397>>, <<55011, 29655>>, <<15109, 50568>>,
  <<29316, 34202>>, <<26946, 51679>>, <<7969, 29476>>, <<61364, 61765>>, <<27396, 56397>>, <<39653, 8115>>, <<28131, 64445>>, <<7081, 25931>>,
  <<33591, 23779>>, <<49544, 17680>>, <<19643, 58737>>, <<60170, 56816>>, <<47631, 44128>>, <<63746, 26762>>, <<49280, 57296>>, <<232, 27182>>,
  <<6640, 58473>>, <<65412, 11597>>, <<3687, 41166>>, <<25586, 47917>>, <<5367, 57128>>, <<35045, 60503>>, <<53902, 35323>>, <<11384, 64730>>,
  <<44939, 31309>>, <<48295, 16073>>, <<58011, 48197>>, <<59827, 42162>>, <<54199, 24663>>, <<3473, 61563>>, <<8645, 28586>>, <<64855, 57848>>,
  <<47751, 35545>>, <<32002, 32235>>, <<42525, 27321>>, <<46265, 11288>>, <<36732, 46092>>, <<60501, 40743>>, <<39294, 57980>>, <<17534, 47965>>,
  <<20173, 10527>>, <<33058, 10311>>, <<18302, 40725>>, <<60637, 18455>>, <<45572, 62580>>, <<27030, 36385>>, <<49437, 38676>>, <<12505, 13991>>,
  <<28769, 8135>>, <<46468, 62570>>, <<57637, 24855>>, <<22415, 1105>>, <<6342, 53279>>, <<20093, 49124>>, <<58165, 22203>>, <<47235, 11037>>,
  <<64896, 10223>>, <<24363, 16171>>, <<6427, 35778>>, <<46362, 34501>>, <<20754, 26433>>, <<22347, 35549>>, <<10250, 30987>>, <<64476, 33044>>,
  <<792, 1139>>, <<49607, 42747>>, <<55891, 3669>>, <<43924, 31557>>, <<22277, 47849>>, <<47658, 51556>>, <<8792, 49876>>, <<20798, 12847>>,
  <<40355, 16951>>, <<59216, 5399>>, <<21721, 57380>>, <<18384, 25996>>, <<9193, 7093>>, <<55543, 36853>>, <<56860, 9687>>, <<33442, 64877>>,
  <<15832, 4277>>, <<31945, 50072>>, <<40074, 12079>>, <<23894, 52006>>, <<64938, 46426>>, <<64362, 11861>>, <<32125, 23384>>, <<10481, 3982>>,
  <<32351, 26602>>, <<19697, 24651>>, <<20489, 15500>>, <<21040, 55515>>, <<65153, 40354>>, <<61358, 31366>>, <<43269, 31623>>, <<20813, 36171>>,
  <<58902, 27684>>, <<29454, 51760>>, <<10272, 18823>>, <<36656, 30668>>, <<28809, 62605>>, <<41778, 50110>>, <<22508, 55733>>, <<12482, 56437>>,
  <<55114, 40619>>, <<25110, 28109>>, <<1366, 14728>>, <<59991, 48601>>, <<38037, 16721>>, <<17987, 6444>>, <<1870, 5754>>, <<61206, 43746>>,
  <<63897, 63477>>, <<16309, 9218>>, <<10921, 48227>>, <<22257, 42410>>, <<57662, 19048>>, <<36805, 38099>>, <<32520, 44977>>, <<23607, 23549>>,
  <<55226, 36863>>, <<58059, 56309>>, <<28904, 5326>>, <<8257, 65192>>, <<12189, 5601>>, <<6918, 29617>>, <<10497, 50856>>, <<54847, 37170>>,
  <<14078, 1680>>, <<27185, 62477>>, <<41427, 15931>>, <<59905, 1865>>, <<63856, 39281>>, <<22066, 22399>>, <<46205, 13289>>, <<5807, 15763>>,
  <<19203, 25299>>, <<8373, 49954>>, <<16816, 16647>>, <<3303, 21649>>, <<844, 20395>>, <<58724, 57702>>, <<1531, 6921>>, <<37762, 47035>>,
  <<33783, 63133>>, <<50658, 37409>>, <<38631, 36360>>, <<988, 6148>>, <<27235, 9831>>, <<64903, 45153>>, <<24402, 15160>>, <<56160, 61812>>,
  <<56861, 57857>>, <<10436, 46204>>, <<37989, 48340>>, <<3573, 5277>>, <<60142, 34581>>, <<63337, 42743>>, <<47782, 41708>>, <<39691, 42561>>,
  <<41800, 34800>>, <<52000, 10217>>, <<45032, 3837>>, <<58092, 45137>>, <<13737, 59253>>, <<52966, 26514>>, <<50045, 60187>>, <<16784, 55884>>,
  <<12148, 15152>>, <<25243, 63166>>, <<27205, 51849>>, <<55131, 18323>>, <<10352, 55174>>, <<28496, 13560>>, <<5399, 13073>>, <<47599, 19059>>,
  <<20514, 14417>>, <<12252, 24417>>, <<5938, 23171>>, <<56940, 58026>>, <<64187, 54841>>, <<18700, 3542>>, <<22132, 4782>>, <<11904, 57832>>,
  <<19847, 38900>>, <<2491, 2179>>, <<30117, 19966>>, <<4426, 37507>>, <<10122, 16572>>, <<14593, 18962>>, <<19665, 42588>>, <<52963, 17022>>,
  <<17320, 18534>>, <<11206, 54940>>, <<39217, 34068>>, <<54331, 33055>>, <<32148, 7183>>, <<52858, 54779>>, <<56030, 59512>>, <<15418, 18464>>,
  <<26076, 29682>>, <<37275, 30817>>, <<42508, 31132>>, <<40652, 58194>>, <<64771, 47231>>, <<17618, 502>>, <<58720, 50291>>, <<3439, 7857>>,
  <<14206, 65039>>, <<22412, 55564>>, <<20867, 60362>>, <<46925, 40184>>, <<47471, 6907>>, <<31341, 5240>>, <<32328, 54291>>, <<45771, 39189>>,
  <<52212, 27959>>, <<52509, 33243>>, <<21244, 41268>>, <<13577, 47646>>, <<5917, 45371>>, <<50500, 54861>>, <<63519, 23140>>, <<15215, 33297>>,
  <<18249, 231>>, <<37389, 14792>>, <<27407, 57521>>, <<69, 45381>>, <<53525, 38445>>, <<1296, 41162>>, <<33443, 40325>>, <<62296, 11621>>,
  <<41626, 64504>>, <<58169, 20726>>, <<11428, 19641>>, <<43118, 56284>>, <<64108, 19374>>, <<15091, 20645>>, <<13748, 29008>>, <<54316, 62458>>,
  <<51889, 50248>>, <<52177, 59822>>, <<21270, 48044>>, <<12691, 37442>>, <<63011, 25097>>, <<1966, 5276>>, <<13795, 49164>>, <<37175, 48870>>,
  <<11881, 14648>>, <<57257, 35283>>, <<6593, 29921>>, <<11644, 10792>>, <<4722, 60387>>, <<43948, 3236>>, <<2972, 50697>>, <<38187, 20369>>,
  <<536, 38746>>, <<44700, 493>>, <<47355, 3271>>, <<212, 56940>>, <<3108, 35010>>, <<25628, 37033>>, <<62387, 40299>>, <<53909, 63542>>,
  <<33084, 54501>>, <<7633, 23700>>, <<54180, 44852>>, <<35066, 149>>, <<62027, 57690>>, <<58050, 11536>>, <<51380, 48879>>, <<58732, 57262>>,
  <<36994, 50570>>, <<14187, 13893>>, <<27496, 13872>>, <<40987, 47161>>, <<40766, 2429>>, <<65363, 59267>>, <<61406, 37471>>, <<40627, 37931>>,
  <<7278, 1468>>, <<52541, 44415>>, <<11607, 53388>>, <<34774, 45089>>, <<58134, 32494>>, <<40523, 35017>>, <<22707, 2906>>, <<53498, 6819>>,
  <<50055, 53627>>, <<27969, 4848>>, <<47197, 18772>>, <<31922, 58674>>, <<41228, 17121>>, <<40689, 5949>>, <<56692, 47001>>, <<42006, 19240>>,
  <<14465, 40338>>, <<5718, 31003>>, <<16706, 7954>>, <<16865, 22851>>, <<385, 8084>>, <<49558, 15339>>, <<56069, 23998>>, <<49760, 10934>>,
  <<7987, 58406>>, <<52800, 12304>>, <<7269, 38752>>, <<53931, 48828>>, <<46560, 57514>>, <<4087, 37872>>, <<5511, 28735>>, <<27647, 36250>>,
  <<11706, 20223>>, <<28352, 50541>>, <<11476, 2188>>, <<37356, 39839>>, <<18202, 274>>, <<34350, 10810>>, <<2382, 62421>>, <<17452, 63005>>,
  <<43987, 15757>>, <<19614, 57919>>, <<32079, 18035>>, <<37006, 23860>>, <<59939, 61155>>, <<51647, 62614>>, <<26401, 35389>>, <<32244, 59325>>,
  <<8373, 61420>>, <<20441, 22630>>, <<42249, 33124>>, <<24541, 32901>>, <<39107, 60798>>, <<55581, 18755>>, <<14708, 51767>>, <<16751, 14084>>,
  <<32066, 46433>>, <<49587, 28634>>, <<26553, 16506>>, <<24569, 3357>>, <<49232, 15892>>, <<43792, 6943>>, <<31451, 6904>>, <<45655, 16214>>,
  <<34683, 52798>>, <<16517, 19878>>, <<585, 20046>>, <<12011, 38696>>, <<3761, 40435>>, <<48834, 30900>>, <<15486, 29552>>, <<15443, 31791>>,
  <<30443, 18095>>, <<30233, 61358>>, <<20031, 26092>>, <<50967, 60796>>, <<2453, 5560>>, <<22435, 6960>>, <<49850, 37818>>, <<19222, 39615>>,
  <<60541, 33564>>, <<44164, 41022>>, <<1131, 11230>>, <<25465, 9419>>, <<24596, 42380>>, <<18518, 616>>, <<5739, 26529>>, <<29521, 25814>>,
  <<21324, 59074>>, <<24895, 58348>>, <<61399, 14565>>, <<3003, 18534>>, <<45785, 18645>>, <<5947, 58320>>, <<13585, 22823>>, <<23203, 47030>>,
  <<5173, 327>>, <<28305, 35362>>, <<4004, 9825>>, <<21106, 54562>>, <<32927, 57653>>, <<50184, 50708>>, <<50377, 56023>>, <<45351, 64450>>,
  <<39631, 6144>>, <<23447, 61238>>, <<18364, 16200>>, <<17450, 55325>>, <<53014, 43312>>, <<48261, 10277>>, <<59731, 39925>>, <<44005, 18239>>,
  <<25940, 15763>>, <<24722, 394>>, <<34104, 20425>>, <<60915, 2142>>, <<29224, 7683>>, <<36023, 40793>>, <<1950, 48070>>, <<724, 50598>>,
  <<58732, 44827>>, <<27879, 8910>>, <<23384, 57797>>, <<63666, 12530>>, <<53017, 38175>>, <<56746, 49083>>, <<47155, 65434>>, <<9536, 6077>>,
  <<16866, 60648>>, <<1572, 8071>>, <<3349, 9130>>, <<29072, 31719>>, <<32576, 51286>>, <<51124, 17497>>, <<24100, 28278>>, <<33770, 34113>>,
  <<25577, 44361>>, <<55969, 60460>>, <<64644, 59464>>, <<32237, 29306>>, <<17767, 43046>>, <<24034, 8136>>, <<58828, 32521>>, <<16836, 49611>>,
  <<62656, 45435>>, <<6770, 21925>>, <<3474, 1357>>, <<60926, 6130>>, <<53884, 4512>>, <<34255, 48094>>, <<493, 46654>>, <<59403, 54175>>,
  <<45106, 46811>>, <<24550, 42128>>, <<32896, 33688>>, <<55079, 22375>>, <<37647, 29019>>, <<11011, 14679>>, <<61945, 12097>>, <<295, 26333>>,
  <<31609, 60540>>, <<28684, 40955>>, <<14662, 46116>>, <<39835, 36453>>, <<44590, 6362>>, <<41248, 57466>>, <<27742, 3270>>, <<13295, 6348>>,
  <<54022, 51722>>, <<21387, 51135>>, <<33129, 41304>>, <<6916, 59842>>, <<51557, 39256>>, <<9067, 21742>>, <<9125, 63988>>, <<20018, 24519>>,
  <<57649, 56761>>, <<10470, 52489>>, <<9120, 29660>>, <<19478, 57538>>, <<49280, 41333>>, <<15174, 41177>>, <<14025, 26743>>, <<47961, 19373>>,
  <<10765, 29798>>, <<37068, 20781>>, <<53040, 37085>>, <<57595, 49517>>, <<51816, 25732>>, <<14042, 21592>>, <<63940, 10752>>, <<49648, 30458>>,
  <<10651, 31983>>, <<44193, 58742>>, <<60614, 36007>>, <<56271, 20480>>, <<63005, 39134>>, <<7867, 39578>>, <<41075, 46060>>, <<13247, 56137>>,
  <<14284, 60649>>, <<63860, 17839>>, <<64231, 39977>>, <<432, 51059>>, <<41698, 33786>>, <<64394, 6948>>, <<8436, 37407>>, <<64113, 51378>>,
  <<8760, 10374>>, <<28237, 62341>>, <<25143, 41124>>, <<59495, 13680>>, <<45792, 16996>>, <<21898, 45266>>, <<34911, 59856>>, <<36744, 34626>>,
  <<63639, 2022>>, <<20333, 19668>>, <<49589, 47931>>, <<15443, 15242>>, <<10302, 58854>>, <<26496, 33397>>, <<36668, 4036>>, <<39524, 23950>>,
  <<41450, 39699>>, <<53247, 63434>>, <<15197, 16051>>, <<59291, 36635>>, <<52435, 24399>>, <<33682, 30259>>, <<31745, 34549>>, <<57493, 9193>>,
  <<30194, 54283>>, <<44110, 3684>>, <<34209, 15232>>, <<36451, 3726>>, <<2631, 22825>>, <<22217, 30549>>, <<6902, 20528>>, <<38935, 46181>>,
  <<60994, 16155>>, <<6416, 49177>>, <<40494, 5384>>, <<55056, 2822>>, <<11639, 62340>>, <<55042, 19818>>, <<13554, 44662>>, <<25271, 51966>>,
  <<48147, 22488>>, <<37460, 19358>>, <<60575, 19778>>, <<35751, 55389>>, <<8064, 64445>>, <<19824, 18158>>, <<7091, 2083>>, <<4635, 10068>>,
  <<50085, 51667>>, <<52180, 11717>>, <<39243, 39182>>, <<24593, 16564>>, <<64796, 50005>>, <<5040, 24991>>, <<9762, 6543>>, <<39608, 51797>>,
  <<57728, 30403>>, <<11648, 26125>>, <<14624, 8283>>, <<53087, 43725>>, <<52012, 42156>>, <<8538, 8876>>, <<25370, 27763>>, <<47012, 63023>>,
  <<24018, 34531>>, <<14477, 64883>>, <<39003, 63809>>, <<3359, 494>>, <<23928, 55390>>, <<63140, 27356>>, <<12102, 58288>>, <<65065, 52781>>,
  <<19871, 5079>>, <<10033, 30837>>, <<61563, 6359>>, <<15875, 53827>>, <<58196, 43739>>, <<23933, 33636>>, <<5033, 22102>>, <<16116, 22556>>,
  <<166, 12389>>, <<1627, 41870>>, <<49691, 7888>>, <<32131, 32951>>, <<58777, 25500>>, <<37695, 28546>>, <<24147, 34983>>, <<7745, 48215>>,
  <<31117, 33197>>, <<37679, 35947>>, <<2348, 3784>>, <<40910, 38053>>, <<7668, 7554>>, <<58004, 40967>>, <<19485, 61826>>, <<40711, 51240>>,
  <<23748, 51970>>, <<10652, 33572>>, <<35766, 28010>>, <<4153, 42534>>, <<50019, 28018>>, <<23147, 62253>>, <<65200, 29948>>, <<34895, 19044>>,
  <<40032, 38566>>, <<22472, 17028>>, <<32598, 19463>>, <<25304, 5325>>, <<18342, 51708>>, <<4586, 2371>>, <<17577, 4607>>, <<38089, 51925>>,
  <<13520, 11313>>, <<49424, 60263>>, <<2399, 8682>>, <<61600, 6393>>, <<44022, 53805>>, <<16537, 16476>>, <<64218, 8259>>, <<22310, 6950>>,
  <<36514, 20170>>, <<14204, 4095>>, <<23884, 38003>>, <<8900, 53117>>, <<23455, 4783>>, <<60394, 56038>>, <<64666, 3987>>, <<12143, 1281>>,
  <<37298, 62732>>, <<22474, 57341>>, <<41144, 47046>>, <<10406, 49011>>, <<12194, 50349>>, <<8878, 12924>>, <<8591, 17835>>, <<65328, 19858>>,
  <<39106, 25099>>, <<34122, 16875>>, <<2420, 19827>>, <<22354, 49337>>, <<43977, 32060>>, <<44767, 6476>>, <<38350, 57475>>, <<32312, 37189>>,
  <<40912, 28687>>, <<52213, 2377>>, <<52660, 19075>>, <<50053, 39051>>, <<11784, 7939>>, <<47452, 57653>>, <<44506, 50047>>, <<18380, 30658>>,
  <<60289, 23188>>, <<57421, 39728>>, <<26142, 11958>>, <<717, 28167>>, <<28534, 15763>>, <<32233, 19629>>, <<60997, 26956>>, <<40195, 37869>>,
  <<44650, 20531>>, <<12259, 20403>>, <<38206, 27162>>, <<5242, 14188>>, <<3722, 57136>>, <<56592, 22890>>, <<12024, 22634>>, <<29858, 6595>>,
  <<42359, 62411>>, <<39395, 24758>>, <<4178, 3356>>, <<7505, 47563>>, <<5228, 58209>>, <<9518, 19742>>, <<6564, 2563>>, <<47996, 60534>>,
  <<15730, 6690>>, <<8607, 9735>>, <<32991, 10318>>, <<34341, 57765>>, <<60140, 40593>>, <<3164, 3861>>, <<4730, 12083>>, <<33525, 20483>>,
  <<63775, 2648>>, <<11543, 56552>>, <<39785, 10683>>, <<42354, 2945>>, <<25742, 57396>>, <<48987, 50121>>, <<42089, 31018>>, <<17779, 3135>>,
  <<13038, 23005>>, <<2812, 11095>>, <<62372, 56499>>, <<59637, 9232>>, <<43481, 60663>>, <<52888, 4687>>, <<18961, 11554>>, <<15862, 55537>>,
  <<55026, 64022>>, <<59632, 36655>>, <<34073, 45641>>, <<36323, 2658>>, <<40410, 64966>>, <<22010, 51717>>, <<25343, 47666>>, <<36293, 64028>>,
  <<8865, 40483>>, <<11309, 37553>>, <<48378, 32532>>, <<18518, 18848>>, <<12724, 24342>>, <<13402, 19741>>, <<34584, 38262>>, <<63283, 2597>>,
  <<18996, 59388>>, <<11833, 57368>>, <<51906, 52783>>, <<35631, 30965>>, <<37573, 40607>>, <<7493, 40976>>, <<23503, 55745>>, <<49032, 53999>>,
  <<7648, 43618>>, <<59095, 53080>>, <<28588, 28741>>, <<32815, 35856>>, <<58874, 34053>>, <<34300, 41676>>, <<1018, 7765>>, <<5435, 21621>>,
  <<54698, 50095>>, <<1610, 708>>, <<25635, 31478>>, <<16652, 46144>>, <<50126, 3378>>, <<43436, 42923>>, <<51367, 45766>>, <<33400, 10027>>,
  <<16612, 50614>>, <<65051, 38754>>, <<42376, 47059>>, <<31257, 48271>>, <<46114, 9315>>, <<8341, 24413>>, <<64535, 10170>>, <<15181, 10367>>,
  <<40863, 42350>>, <<1610, 57198>>, <<63835, 18580>>, <<41553, 58337>>, <<18208, 46012>>, <<39603, 42263>>, <<51183, 36286>>, <<30738, 27164>>,
  <<28481, 26245>>, <<14655, 58503>>, <<11307, 13469>>, <<9810, 21393>>, <<45782, 42840>>, <<48596, 39820>>, <<20065, 45321>>, <<57179, 1607>>,
  <<31198, 14894>>, <<31492, 12631>>, <<39001, 63438>>, <<17631, 31556>>, <<63022, 50944>>, <<1184, 33066>>, <<53168, 3241>>, <<27957, 45094>>,
  <<36269, 22593>>, <<34810, 15681>>, <<52421, 29319>>, <<32397, 52486>>, <<55133, 55151>>, <<5457, 14960>>, <<48333, 45789>>, <<17038, 31004>>,
  <<8710, 19416>>, <<43070, 24751>>, <<42515, 53528>>, <<8059, 63292>>, <<45183, 29839>>, <<44466, 41161>>, <<29882, 63335>>, <<5006, 47833>>,
  <<4286, 8422>>, <<53271, 52967>>, <<31688, 18396>>, <<41554, 64221>>, <<20303, 33215>>, <<8893, 55923>>, <<54929, 51219>>, <<9465, 42426>>,
  <<11159, 18377>>, <<10011, 52619>>, <<3913, 51642>>, <<57222, 11599>>, <<59689, 14492>>, <<62237, 11884>>, <<65502, 21591>>, <<13111, 14625>>,
  <<21848, 13140>>, <<38738, 49953>>, <<62563, 58595>>, <<30809, 277>>, <<1966, 30243>>, <<28972, 8433>>, <<33382, 13281>>, <<25103, 39013>>,
  <<64286, 40671>>, <<56511, 39463>>, <<40841, 44084>>, <<15634, 8424>>, <<47870, 13323>>, <<13264, 1022>>, <<29787, 8291>>, <<21296, 57441>>,
  <<18995, 25482>>, <<3240, 27195>>, <<34027, 49842>>, <<65361, 43065>>, <<13241, 46362>>, <<9597, 48411>>, <<27151, 38939>>, <<44163, 41181>>,
  <<56701, 16432>>, <<21651, 18772>>, <<60957, 38577>>, <<10483, 2167>>, <<16339, 54286>>, <<14268, 0>>, <<14819, 45049>>, <<18115, 10132>>,
  <<25820, 51267>>, <<40655, 5798>>, <<58422, 28455>>, <<36215, 59470>>, <<17415, 14034>>, <<44947, 62038>>, <<21580, 27200>>, <<61684, 39188>>,
  <<14324, 36346>>, <<43745, 62352>>, <<59505, 34598>>, <<19074, 48036>>, <<2495, 10876>>, <<48041, 18915>>, <<47049, 24622>>, <<8321, 45163>>,
  <<23202, 12065>>, <<25340, 37737>>, <<36195, 15286>>, <<42163, 59646>>, <<2095, 45320>>, <<44536, 28834>>, <<26611, 45122>>, <<47433, 18242>>,
  <<37656, 45725>>, <<11180, 57777>>, <<60018, 65341>>, <<2370, 46583>>, <<5674, 8698>>, <<44181, 63538>>, <<36901, 29519>>, <<39111, 9315>>,
  <<33480, 27850>>, <<7319, 26528>>, <<38792, 48281>>, <<28005, 30663>>, <<28424, 14017>>, <<36326, 27218>>, <<17371, 51013>>, <<13029, 8235>>,
  <<40533, 31808>>, <<27850, 54192>>, <<47487, 0>>, <<1043, 33472>>, <<34292, 21142>>, <<11073, 39954>>, <<54216, 47933>>, <<22219, 45529>>,
  <<6686, 63964>>, <<25104, 52907>>, <<30143, 11165>>, <<50895, 34588>>, <<17553, 39812>>, <<31633, 56437>>, <<36618, 18148>>, <<22019, 25147>>,
  <<28217, 64917>>, <<14387, 15371>>, <<44017, 10972>>, <<46309, 17561>>, <<29839, 42336>>, <<15316, 11894>>, <<53072, 36069>>, <<17810, 22741>>,
  <<28504, 12191>>, <<16718, 56127>>, <<43550, 37963>>, <<37488, 56456>>, <<10249, 54227>>, <<38706, 39523>>, <<7731, 4668>>, <<46092, 58199>>,
  <<65168, 31903>>, <<61393, 42604>>, <<3776, 62641>>, <<61813, 53587>>, <<907, 43394>>, <<13452, 2794>>, <<456, 13726>>, <<19633, 28359>>,
  <<59370, 27322>>, <<64810, 38575>>, <<30688, 44>>, <<34889, 64419>>, <<44225, 44570>>, <<13265, 28967>>, <<7910, 36988>>, <<3435, 37468>>,
  <<60946, 47700>>, <<43127, 5320>>, <<1081, 18710>>, <<33014, 34691>>, <<10683, 5203>>, <<19526, 17727>>, <<21052, 47819>>, <<44137, 34055>>,
  <<32426, 35038>>, <<60732, 23724>>, <<47127, 46808>>, <<3186, 58444>>, <<7180, 59402>>, <<9221, 45656>>, <<10101, 56022>>, <<31283, 37542>>,
  <<20190, 61940>>, <<47854, 13388>>, <<15906, 12045>>, <<35745, 51549>>, <<10963, 44758>>, <<53777, 11690>>, <<49325, 6370>>, <<52735, 60037>>,
  <<50748, 1061>>, <<18492, 3262>>, <<61662, 65075>>, <<52218, 1927>>, <<27956, 53345>>, <<47280, 52207>>, <<54794, 48513>>, <<19054, 29862>>,
  <<61120, 42100>>, <<55117, 9147>>, <<24002, 25194>>, <<42297, 57812>>, <<47774, 47250>>, <<42442, 6686>>, <<37918, 783>>, <<54569, 2907>>,
  <<13527, 44196>>, <<4056, 43557>>, <<38314, 14644>>, <<28409, 19861>>, <<5908, 32083>>, <<53070, 45540>>, <<36219, 32090>>, <<32685, 55267>>,
  <<43328, 8049>>, <<56171, 59905>>, <<19828, 59410>>, <<24276, 22769>>, <<56005, 22147>>, <<30681, 32005>>, <<34635, 28125>>, <<31240, 643>>,
  <<646, 1978>>, <<49207, 47788>>, <<23006, 13233>>, <<11851, 13062>>, <<32255, 18270>>, <<27035, 6017>>, <<16783, 31340>>, <<13803, 18887>>,
  <<15275, 56595>>, <<35801, 28477>>, <<19645, 28435>>, <<17945, 17>>, <<64576, 30089>>, <<9900, 23503>>, <<14710, 45963>>, <<59686, 21432>>,
  <<121, 24892>>, <<29877, 22005>>, <<31460, 15628>>, <<37339, 60356>>, <<21699, 58032>>, <<20805, 45163>>, <<7482, 52809>>, <<47772, 56051>>,
  <<63743, 48314>>, <<8629, 53871>>, <<51065, 49943>>, <<1991, 20773>>, <<40695, 34384>>, <<25228, 61141>>, <<10596, 32296>>, <<61350, 61916>>,
  <<37185, 51836>>, <<8884, 54874>>, <<8777, 26528>>, <<5837, 37260>>, <<37264, 64931>>, <<26087, 57300>>, <<11658, 27355>>, <<3015, 32493>>,
  <<45903, 21568>>, <<17869, 22139>>, <<11314, 18411>>, <<4003, 40028>>, <<43872, 31160>>, <<24512, 15312>>, <<49399, 9691>>, <<47402, 29841>>,
  <<63261, 20591>>, <<65296, 28314>>, <<65527, 21790>>, <<41257, 39172>>, <<16143, 24809>>, <<24483, 6393>>, <<25273, 59876>>, <<29336, 38599>>,
  <<584, 43674>>, <<37009, 30582>>, <<44648, 57581>>, <<39682, 8653>>, <<63077, 2282>>, <<19563, 17724>>, <<33157, 28493>>, <<13592, 49817>>,
  <<37782, 37202>>, <<13084, 8598>>, <<13182, 48984>>, <<45556, 54102>>, <<24690, 48978>>, <<20321, 54950>>, <<2395, 20185>>, <<52194, 38194>>,
  <<18026, 47771>>, <<40356, 28107>>, <<58219, 42023>>, <<6606, 57123>>, <<9300, 27820>>, <<53297, 5983>>, <<31943, 55427>>, <<62718, 24460>>,
  <<57070, 47187>>, <<58114, 51770>>, <<32570, 42632>>, <<4639, 45342>>, <<27739, 15030>>, <<56224, 10814>>, <<15708, 46681>>, <<38432, 27703>>,
  <<33753, 35460>>, <<24208, 34064>>, <<11092, 48302>>, <<24593, 49825>>, <<31245, 4386>>, <<25603, 61217>>, <<50125, 65174>>, <<13549, 36925>>,
  <<53729, 31150>>, <<13086, 18499>>, <<35035, 63703>>, <<34753, 28860>>, <<30115, 50468>>, <<62008, 16056>>, <<20533, 45102>>, <<53569, 31838>>,
  <<55939, 53033>>, <<14128, 34619>>, <<35449, 1729>>, <<57393, 9895>>, <<31456, 37972>>, <<51439, 37429>>, <<13404, 62145>>, <<2503, 64280>>,
  <<1952, 29812>>, <<40709, 32370>>, <<19017, 20545>>, <<5799, 44595>>, <<63741, 16060>>, <<41510, 13544>>, <<56818, 16353>>, <<16956, 51935>>,
  <<25253, 19598>>, <<56564, 43494>>, <<32778, 51533>>, <<35746, 57536>>, <<57322, 3108>>, <<19660, 9913>>, <<5783, 54791>>, <<8134, 26043>>,
  <<10887, 26048>>, <<57594, 14806>>, <<9033, 41966>>, <<4573, 52180>>, <<5622, 19403>>, <<52924, 4401>>, <<6662, 27991>>, <<46829, 61329>>,
  <<2615, 61954>>, <<4217, 24340>>, <<3492, 14991>>, <<53233, 61178>>, <<37108, 5480>>, <<32973, 45578>>, <<10054, 34964>>, <<2371, 54290>>,
  <<24399, 17123>>, <<28013, 20085>>, <<50829, 62997>>, <<19047, 30290>>, <<59516, 40978>>, <<55728, 22843>>, <<47822, 9771>>, <<10932, 28968>>,
  <<11479, 52037>>, <<61176, 55636>>, <<26249, 56070>>, <<1338, 41486>>, <<45755, 39767>>, <<49081, 52413>>, <<35002, 39200>>, <<15619, 51525>>,
  <<54438, 59970>>, <<6896, 38380>>, <<14799, 4392>>, <<52661, 17891>>, <<42385, 48356>>, <<41585, 20732>>, <<63468, 4904>>, <<62987, 15602>>,
  <<61798, 63291>>, <<5224, 41606>>, <<20952, 16707>>, <<3726, 9666>>, <<43301, 12837>>, <<21152, 54972>>, <<21533, 24304>>, <<16223, 19138>>,
  <<6071, 25127>>, <<25900, 23010>>, <<2859, 57792>>, <<40788, 42314>>, <<21585, 61807>>, <<5033, 19924>>, <<14951, 63703>>, <<35703, 2233>>,
  <<54698, 39455>>, <<25599, 44079>>, <<14312, 31156>>, <<6130, 24679>>, <<24484, 38270>>, <<19798, 12811>>, <<3268, 38862>>, <<7893, 33809>>,
  <<3783, 31665>>, <<36175, 43698>>, <<60507, 55839>>, <<54906, 22491>>, <<42674, 14778>>, <<18458, 39017>>, <<41059, 3180>>, <<45476, 51682>>,
  <<61076, 18417>>, <<59397, 48519>>, <<38424, 16261>>, <<32132, 52847>>, <<37152, 416>>, <<59277, 9222>>, <<26844, 2368>>, <<52251, 43482>>,
  <<48066, 54796>>, <<45661, 43492>>, <<35205, 36606>>, <<58925, 48643>>, <<10660, 14001>>, <<61781, 3566>>, <<46953, 26159>>, <<9841, 21481>>,
  <<11229, 41507>>, <<18186, 43578>>, <<64141, 13446>>, <<17797, 35321>>, <<63797, 52887>>, <<12203, 28687>>, <<37029, 33000>>, <<56718, 872>>,
  <<7122, 7228>>, <<28179, 44700>>, <<37397, 4832>>, <<44016, 26843>>, <<35200, 65039>>, <<40464, 20300>>, <<55822, 45619>>, <<20277, 29451>>,
  <<65328, 52010>>, <<27307, 58554>>, <<18257, 21344>>, <<8508, 47974>>, <<24174, 48959>>, <<25777, 57673>>, <<31256, 64998>>, <<12230, 23458>>,
  <<9453, 54536>>, <<32625, 63655>>, <<28408, 37575>>, <<55619, 52574>>, <<52451, 54084>>, <<28589, 16755>>, <<6396, 53807>>, <<43289, 37989>>,
  <<7398, 64746>>, <<63370, 27441>>, <<46362, 33610>>, <<37626, 55292>>, <<54323, 42965>>, <<61293, 23054>>, <<46337, 49176>>, <<57457, 16439>>,
  <<4831, 18942>>, <<27147, 26533>>, <<10339, 7735>>, <<50002, 60693>>, <<23717, 27187>>, <<44665, 49329>>, <<26603, 35626>>, <<30845, 19457>>,
  <<9772, 10087>>, <<28403, 31537>>, <<13917, 1568>>, <<16368, 1245>>, <<14758, 35203>>, <<26527, 22064>>, <<32263, 47485>>, <<18482, 26428>>,
  <<23351, 17304>>, <<10671, 18218>>, <<27857, 53432>>, <<51563, 30646>>, <<17163, 37243>>, <<25809, 22154>>, <<26089, 46315>>, <<26684, 44166>>,
  <<57512, 31067>>, <<27533, 18250>>, <<40424, 18449>>, <<54724, 8289>>, <<41884, 35046>>, <<65124, 40982>>, <<52910, 31907>>, <<47929, 10785>>,
  <<15377, 40480>>, <<41237, 64192>>, <<47778, 49170>>, <<38713, 35704>>, <<30188, 7367>>, <<55397, 1111>>, <<31164, 53952>>, <<62618, 44223>>,
  <<4637, 54477>>, <<42467, 40864>>, <<29093, 14480>>, <<7781, 59827>>, <<40688, 64160>>, <<59465, 8528>>, <<6276, 63693>>, <<58474, 63821>>,
  <<3976, 54159>>, <<30619, 23027>>, <<55150, 7693>>, <<46999, 22286>>, <<23324, 27303>>, <<44982, 37171>>, <<54780, 63186>>, <<38752, 38361>>,
  <<33624, 58232>>, <<5202, 22952>>, <<60293, 37297>>, <<20187, 52942>>, <<53019, 53224>>, <<49807, 59907>>, <<53314, 63484>>, <<49029, 18627>>,
  <<56240, 33756>>, <<63723, 52157>>, <<14909, 59256>>, <<19723, 10213>>, <<40038, 39109>>, <<32465, 33334>>, <<52244, 47723>>, <<14756, 27633>>,
  <<48651, 22515>>, <<40836, 27869>>, <<56570, 61077>>, <<22331, 9849>>, <<58435, 42411>>, <<42600, 58650>>, <<46428, 44463>>, <<5555, 22649>>,
  <<6301, 34853>>, <<12084, 8814>>, <<29570, 41137>>, <<5290, 7989>>, <<12032, 6461>>, <<58980, 60716>>, <<60311, 41949>>, <<9356, 36350>>,
  <<32255, 29711>>, <<44243, 21262>>, <<64039, 18586>>, <<40009, 47506>>, <<42408, 32553>>, <<60327, 47725>>, <<17952, 30501>>, <<20760, 6863>>,
  <<46017, 65032>>, <<38346, 9170>>, <<1621, 633>>, <<35797, 60908>>, <<52764, 53113>>, <<6632, 63123>>, <<50415, 22590>>, <<20918, 9039>>,
  <<46060, 46774>>, <<48423, 6668>>, <<51471, 10931>>, <<60546, 7011>>, <<3035, 48296>>, <<49581, 45899>>, <<16000, 36106>>, <<35562, 1270>>,
  <<51193, 48792>>, <<29479, 38760>>, <<41983, 15743>>, <<61282, 57282>>, <<60236, 3403>>, <<8315, 56389>>, <<48910, 37609>>, <<53770, 42628>>,
  <<9291, 53744>>, <<18798, 40147>>, <<28911, 46505>>, <<61445, 23189>>, <<8679, 6500>>, <<54464, 40537>>, <<16284, 9934>>, <<58919, 27706>>,
  <<45928, 44856>>, <<29991, 49226>>, <<22294, 27319>>, <<28300, 56488>>, <<34927, 526>>, <<27618, 61191>>, <<65515, 27871>>, <<11452, 11561>>,
  <<52477, 34232>>, <<30349, 17727>>, <<32559, 43425>>, <<57386, 23574>>, <<49925, 7185>>, <<51623, 18193>>, <<59039, 38709>>, <<21328, 41496>>,
  <<48915, 12508>>, <<6793, 56179>>, <<54978, 31740>>, <<32916, 32883>>, <<17450, 54381>>, <<64398, 22275>>, <<24911, 63302>>, <<16722, 50628>>,
  <<8745, 54308>>, <<52177, 11328>>, <<50922, 56007>>, <<10173, 37051>>, <<43402, 64232>>, <<36166, 8976>>, <<42859, 454>>, <<16042, 60513>>,
  <<1328, 27103>>, <<142, 13615>>, <<61333, 23501>>, <<32456, 1376>>, <<63149, 65232>>, <<63914, 10187>>, <<672, 5041>>, <<42499, 46540>>,
  <<3705, 39364>>, <<40460, 24309>>, <<15028, 34559>>, <<3165, 20776>>, <<1759, 26002>>, <<57937, 10965>>, <<63322, 57395>>, <<12511, 49184>>,
  <<23745, 6136>>, <<43165, 37834>>, <<65313, 12823>>, <<17352, 28798>>, <<45823, 16613>>, <<60859, 9107>>, <<28044, 27243>>, <<39881, 47007>>,
  <<1217, 44309>>, <<42317, 51632>>, <<44674, 21705>>, <<61425, 37940>>, <<11801, 56695>>, <<42466, 42835>>, <<32927, 1010>>, <<17032, 45338>>,
  <<15842, 19863>>, <<52488, 40064>>, <<63845, 42946>>, <<39439, 42629>>, <<33924, 1286>>, <<13752, 48154>>, <<50018, 33486>>, <<38400, 54270>>,
  <<43703, 13651>>, <<52788, 52955>>, <<6009, 49960>>, <<31282, 60856>>, <<39738, 46327>>, <<23013, 26605>>, <<60235, 15188>>, <<30941, 56407>>,
  <<60158, 56079>>, <<39555, 48917>>, <<60490, 26740>>, <<11556, 2019>>, <<57111, 35261>>, <<132, 27480>>, <<50559, 40774>>, <<14927, 33479>>,
  <<41548, 49568>>, <<17532, 59854>>, <<11117, 1399>>, <<56188, 60466>>, <<55641, 56542>>, <<61862, 21553>>, <<18014, 21933>>, <<23316, 37866>>,
  <<64744, 56029>>, <<56556, 6412>>, <<26934, 16281>>, <<9725, 5885>>, <<528, 62194>>, <<47069, 41308>>, <<56042, 2083>>, <<27271, 34417>>,
  <<11879, 23721>>, <<62271, 54841>>, <<14119, 58343>>, <<6862, 648>>, <<39713, 59734>>, <<29240, 58561>>, <<18656, 64411>>, <<49566, 9652>>,
  <<64309, 46577>>, <<41148, 4065>>, <<25540, 7960>>, <<26052, 14022>>, <<23804, 49912>>, <<17786, 31930>>, <<15530, 5876>>, <<31471, 45207>>,
  <<47408, 34426>>, <<56380, 8540>>, <<59759, 10766>>, <<10669, 62409>>, <<17014, 6064>>, <<19792, 61242>>, <<22280, 49136>>, <<33023, 48410>>,
  <<14355, 18545>>, <<58894, 34268>>, <<42719, 60698>>, <<20598, 37881>>, <<55255, 42074>>, <<64589, 6032>>, <<37234, 49295>>, <<19912, 2012>>,
  <<14002, 12367>>, <<44169, 6438>>, <<49983, 17905>>, <<20612, 44560>>, <<42181, 29061>>, <<9543, 47884>>, <<37579, 39454>>, <<5150, 59705>>,
  <<49476, 4447>>, <<27864, 1758>>, <<58149, 50694>>, <<7061, 12502>>, <<24113, 26737>>, <<36906, 23806>>, <<26932, 15664>>, <<47377, 4096>>,
  <<21047, 57735>>, <<37722, 10818>>, <<64672, 45797>>, <<55880, 6771>>, <<28767, 17045>>, <<38255, 28227>>, <<62131, 39382>>, <<38779, 9512>>,
  <<22343, 64306>>, <<60183, 57083>>, <<38971, 26487>>, <<8335, 50750>>, <<41079, 51523>>, <<45347, 935>>, <<20305, 23580>>, <<3135, 12706>>,
  <<65514, 64521>>, <<10440, 60176>>, <<42243, 8143>>, <<4850, 25988>>, <<36915, 48004>>, <<25040, 12507>>, <<53820, 13555>>, <<14679, 4804>>,
  <<30869, 53575>>, <<42313, 15795>>, <<27593, 38202>>, <<30880, 200>>, <<49139, 38812>>, <<57559, 7190>>, <<19035, 43769>>, <<42063, 35605>>,
  <<56896, 61942>>, <<27071, 48111>>, <<62253, 43330>>, <<14582, 32459>>, <<27159, 39830>>, <<23023, 4518>>, <<27942, 26133>>, <<59994, 44775>>,
  <<23987, 22614>>, <<46643, 1402>>, <<30281, 33255>>, <<6269, 61704>>, <<52709, 45046>>, <<55361, 55270>>, <<2586, 51736>>, <<48899, 39619>>,
  <<10356, 59846>>, <<55228, 16382>>, <<35572, 40102>>, <<53174, 24445>>, <<32309, 6110>>, <<42907, 4432>>, <<25849, 60571>>, <<43113, 37880>>,
  <<16841, 9952>>, <<55141, 6046>>, <<34371, 53292>>, <<18931, 16337>>, <<26879, 50991>>, <<50085, 41843>>, <<57027, 47666>>, <<22827, 49518>>,
  <<54075, 60331>>, <<7084, 58158>>, <<18476, 55828>>, <<41692, 4362>>, <<54921, 59429>>, <<26823, 60017>>, <<54792, 5922>>, <<54382, 1859>>,
  <<22635, 21880>>, <<27481, 36884>>, <<45969, 60425>>, <<63116, 1317>>, <<32364, 38008>>, <<8339, 51926>>, <<13800, 4352>>, <<56540, 45167>>,
  <<39942, 1516>>, <<48479, 57714>>, <<40929, 54579>>, <<4907, 5194>>, <<57828, 35173>>, <<30811, 47921>>, <<17863, 40451>>, <<20137, 56728>>,
  <<35600, 37636>>, <<14010, 59541>>, <<61033, 15411>>, <<9467, 21828>>, <<53742, 49276>>, <<38775, 64235>>, <<49398, 2449>>, <<8621, 4815>>,
  <<57077, 32070>>, <<61827, 58124>>, <<60166, 7950>>, <<12561, 24982>>, <<19118, 1040>>, <<36391, 46304>>, <<20886, 27470>>, <<30021, 34069>>,
  <<35358, 16368>>, <<10673, 46471>>, <<43301, 59221>>, <<17019, 59401>>, <<59903, 6224>>, <<39656, 65034>>, <<32056, 3273>>, <<24189, 6526>>,
  <<30854, 56985>>, <<8663, 56273>>, <<15649, 11700>>, <<48211, 44483>>, <<6637, 64897>>, <<39332, 20677>>, <<20401, 31804>>, <<27535, 13547>>,
  <<28960, 22075>>, <<3348, 15642>>, <<29760, 23787>>, <<42730, 15433>>, <<34055, 35486>>, <<44819, 7120>>, <<24739, 38555>>, <<51655, 29571>>,
  <<55445, 30261>>, <<5574, 9954>>, <<34667, 2373>>, <<34514, 12965>>, <<47317, 3129>>, <<37577, 33824>>, <<12536, 23112>>, <<45725, 20161>>,
  <<58222, 53739>>, <<3599, 40189>>, <<28339, 16458>>, <<58464, 49409>>, <<36438, 39150>>, <<30192, 49688>>, <<26467, 37859>>, <<9610, 10910>>,
  <<55684, 61939>>, <<31574, 2359>>, <<17989, 55868>>, <<55737, 51623>>, <<28846, 50448>>, <<51836, 60229>>, <<65102, 25092>>, <<36845, 8759>>,
  <<50098, 49921>>, <<2663, 52646>>, <<11138, 1868>>, <<49376, 13180>>, <<65101, 4867>>, <<11554, 51157>>, <<4248, 23017>>, <<23234, 44156>>,
  <<39390, 22049>>, <<17867, 2931>>, <<60409, 15342>>, <<45935, 42971>>, <<48490, 4825>>, <<57723, 7244>>, <<5925, 4513>>, <<4599, 26994>>,
  <<33914, 52967>>, <<33576, 46247>>, <<30919, 32958>>, <<62376, 20744>>, <<51165, 22034>>, <<42271, 48381>>, <<20332, 40116>>, <<45918, 58682>>,
  <<57776, 55376>>, <<63037, 35604>>, <<12993, 49224>>, <<43401, 30855>>, <<18202, 19400>>, <<14629, 11961>>, <<17009, 30453>>, <<44608, 28927>>,
  <<7175, 3627>>, <<41786, 45012>>, <<9078, 44512>>, <<19408, 54475>>, <<22493, 34430>>, <<40939, 11857>>, <<10289, 56105>>, <<30450, 35216>>,
  <<19491, 8683>>, <<37341, 4275>>, <<40574, 61303>>, <<43235, 62893>>, <<39604, 39637>>, <<22509, 40258>>, <<49365, 29108>>, <<26653, 35994>>,
  <<45651, 52521>>, <<15488, 46570>>, <<21167, 34578>>, <<58303, 28502>>, <<6547, 5569>>, <<425, 17444>>, <<33652, 18314>>, <<18792, 8142>>,
  <<5672, 59494>>, <<19571, 4013>>, <<28248, 57186>>, <<63328, 7639>>, <<27356, 58298>>, <<11995, 47743>>, <<39819, 12517>>, <<49201, 60109>>,
  <<61224, 42841>>, <<63465, 5958>>, <<63276, 93>>, <<29691, 36107>>, <<15976, 52457>>, <<35795, 40548>>, <<49398, 25694>>, <<56853, 45339>>,
  <<43239, 22768>>, <<3149, 57768>>, <<61458, 9353>>, <<19114, 5288>>, <<30268, 59512>>, <<17846, 13555>>, <<23443, 2848>>, <<47071, 44672>>,
  <<56653, 14806>>, <<21203, 51953>>, <<13738, 12812>>, <<60133, 54938>>, <<50737, 14593>>, <<59320, 61393>>, <<38264, 26051>>, <<27129, 45448>>,
  <<22215, 7524>>, <<45304, 6216>>, <<44455, 40373>>, <<5300, 50561>>, <<1179, 29910>>, <<29351, 48482>>, <<61579, 3791>>, <<34842, 63696>>,
  <<20535, 54632>>, <<16069, 54252>>, <<15941, 26526>>, <<13124, 17584>>, <<44306, 38085>>, <<53429, 8828>>, <<65056, 17777>>, <<9517, 33215>>,
  <<55851, 2919>>, <<14314, 15225>>, <<53786, 23369>>, <<4745, 4859>>, <<59223, 50609>>, <<53284, 54905>>, <<1792, 19298>>, <<26147, 42647>>,
  <<61219, 13024>>, <<12268, 8077>>, <<27351, 29948>>, <<35348, 14412>>, <<911, 8613>>, <<52591, 16552>>, <<50832, 31310>>, <<15487, 38669>>,
  <<56238, 16920>>, <<46763, 31237>>, <<44820, 65115>>, <<59909, 3147>>, <<12024, 44479>>, <<57200, 3081>>, <<37537, 46554>>, <<15346, 30142>>,
  <<3644, 20904>>, <<41398, 10545>>, <<51720, 870>>, <<27815, 23324>>, <<58277, 10349>>, <<32590, 17713>>, <<57656, 35326>>, <<59360, 3353>>
  >>

\* m is the i-th identifier of the population
IsPopulationId(m, i) == i \in 0..(TestPopulationSize - 1) /\ m = generatePatientId(i).s

\* the index of m in the population, or -1
PopulationIndex(m) ==
  IF /\ Len(m) > Len(PatientPrefix)
     /\ SubSeq(m, 1, Len(PatientPrefix)) = PatientPrefix
     /\ \A k \in (Len(PatientPrefix) + 1)..Len(m) : m[k] \in 48..57
     /\ Len(m) <= Len(PatientPrefix) + 4
     /\ IsPopulationId(m, ParseDecimal(SubSeq(m, Len(PatientPrefix) + 1, Len(m))))
    THEN ParseDecimal(SubSeq(m, Len(PatientPrefix) + 1, Len(m)))
    ELSE -1

\* the digest of m: of an identifier of the population the first word alone
Digest(m) ==
  IF PopulationIndex(m) >= 0 THEN <<PatientDigestWords[PopulationIndex(m) + 1]>>
  ELSE (CHOOSE p \in Sha256Memo : p[1] = m)[2]

\* digest('hex').substring(0, 8): the eight hex digits of the first digest word
HexPrefix8(d) ==
  LET w == d[1]
  IN <<w[1] \div 4096, (w[1] \div 256) % 16, (w[1] \div 16) % 16, w[1] % 16,
       w[2] \div 4096, (w[2] \div 256) % 16, (w[2] \div 16) % 16, w[2] % 16>>

\* parseInt of the last two of the eight hex digits only
ParseHex8LastDigits(h) == <<0, h[7] * 16 + h[8]>>

\* parseInt(h, 16) of eight hex digits, as a <<high, low>> word
ParseHex8(h) ==
  <<((h[1] * 16 + h[2]) * 16 + h[3]) * 16 + h[4],
    ((h[5] * 16 + h[6]) * 16 + h[7]) * 16 + h[8]>>

\* WordMod with the modulus off by one (offsets in 0..n)
WordModInclusive(w, n) ==
  ((w[1] % (n + 1)) * (WordBase % (n + 1)) + (w[2] % (n + 1))) % (n + 1)

\* w % n for a word w = w[1] * 2^16 + w[2] and 0 < n < 2^15
WordMod(w, n) == ((w[1] % n) * (WordBase % n) + (w[2] % n)) % n

\* computeOffset salted with a process-wide counter: not a function of its arguments
computeOffsetSalted(patientId, binCount) ==
  IF Falsy(patientId)
    THEN Throw("Patient ID is required and cannot be empty")
  ELSE IF patientId.t # "string"
    THEN Throw("TypeError: patientId.trim is not a function")
  ELSE IF Len(Trim(patientId.s)) = 0
    THEN Throw("Patient ID is required and cannot be empty")
  ELSE IF DefaultParam(binCount, DEFAULT_BIN_COUNT) <= 0
    THEN Throw("Bin count must be a positive integer")
  ELSE Return((WordMod(ParseHex8(HexPrefix8(Digest(patientId.s))),
                       DefaultParam(binCount, DEFAULT_BIN_COUNT)) + uuidCount)
                % DefaultParam(binCount, DEFAULT_BIN_COUNT))

\* computeOffset putting everything in bin 0 when the bin count is not positive
computeOffsetClampingBins(patientId, binCount) ==
  IF Falsy(patientId)
    THEN Throw("Patient ID is required and cannot be empty")
  ELSE IF patientId.t # "string"
    THEN Throw("TypeError: patientId.trim is not a function")
  ELSE IF Len(Trim(patientId.s)) = 0
    THEN Throw("Patient ID is required and cannot be empty")
  ELSE IF DefaultParam(binCount, DEFAULT_BIN_COUNT) <= 0
    THEN Return(0)
  ELSE Return(WordMod(ParseHex8(HexPrefix8(Digest(patientId.s))),
                      DefaultParam(binCount, DEFAULT_BIN_COUNT)))

\* binCount is the argument as passed: a number, or undefined where it is omitted
computeOffset(patientId, binCount) ==
  IF Falsy(patientId)
    THEN Throw("Patient ID is required and cannot be empty")
  ELSE IF patientId.t # "string"
    THEN Throw("TypeError: patientId.trim is not a function")
  ELSE IF Len(Trim(patientId.s)) = 0
    THEN Throw("Patient ID is required and cannot be empty")
  ELSE IF DefaultParam(binCount, DEFAULT_BIN_COUNT) <= 0
    THEN Throw("Bin count must be a positive integer")
  ELSE LET hash == Digest(patientId.s)
           numericValue == ParseHex8(HexPrefix8(hash))
       IN Return(WordMod(numericValue, DefaultParam(binCount, DEFAULT_BIN_COUNT)))

\* the offset added to the millisecond timestamp without the conversion to ms
FireTimeAtUnscaled(cycleStart, offsetSeconds) ==
  IF offsetSeconds.ok THEN Return(cycleStart + offsetSeconds.v) ELSE offsetSeconds

\* new Date(cycleStart.getTime() + offsetSeconds * 1000), unless computeOffset threw
FireTimeAt(cycleStart, offsetSeconds) ==
  IF offsetSeconds.ok THEN Return(cycleStart + offsetSeconds.v * 1000) ELSE offsetSeconds

computeFireTime(patientId, cycleStart, binCount) ==
  FireTimeAt(cycleStart, computeOffset(patientId, binCount))

(***************************************************************************)
(* The numbers of the distribution statistics. JavaScript numbers that are *)
(* not all integers: an exact fraction num/den in lowest terms (den > 0),  *)
(* or NaN, Infinity, -Infinity; an omitted number argument has the same    *)
(* shape. A square root is kept as the number under the root.              *)
(***************************************************************************)
RECURSIVE GCD(_, _)
GCD(a, b) == IF b = 0 THEN a ELSE GCD(b, a % b)

Abs(a) == IF a < 0 THEN -a ELSE a

Real(a, b) ==
  [kind |-> "finite", num |-> a \div GCD(Abs(a), b), den |-> b \div GCD(Abs(a), b)]
NaN == [kind |-> "NaN", num |-> 0, den |-> 1]
PosInfinity == [kind |-> "Infinity", num |-> 1, den |-> 1]
NegInfinity == [kind |-> "-Infinity", num |-> -1, den |-> 1]
Omitted == [kind |-> "undefined", num |-> 0, den |-> 1]

\* a number parameter declared with a default
DefaultNumber(v, d) == IF v.kind = "undefined" THEN d ELSE v

\* x + y, x - y, x * y of finite numbers, over the least common denominator
RealAdd(x, y) ==
  LET g == GCD(x.den, y.den)
  IN Real(x.num * (y.den \div g) + y.num * (x.den \div g), (x.den \div g) * y.den)
RealSub(x, y) == RealAdd(x, [y EXCEPT !.num = -y.num])
RealMul(x, y) ==
  LET a == Real(x.num, y.den)
      b == Real(y.num, x.den)
  IN Real(a.num * b.num, a.den * b.den)

\* x / y of a number x >= 0 that is finite and a finite y >= 0
RealDiv(x, y) ==
  IF x.kind # "finite" \/ y.kind # "finite" THEN NaN
  ELSE IF y.num = 0 THEN (IF x.num = 0 THEN NaN ELSE PosInfinity)
  ELSE RealMul(x, Real(y.den, y.num))

\* x <= y and x > 0; a comparison with NaN is false
RealLeq(x, y) ==
  /\ x.kind # "NaN" /\ y.kind # "NaN"
  /\ \/ x.kind = "-Infinity"
     \/ y.kind = "Infinity"
     \/ x.kind = "finite" /\ y.kind = "finite" /\ x.num * y.den <= y.num * x.den
RealPositive(x) == x.kind = "Infinity" \/ (x.kind = "finite" /\ x.num > 0)

\* Math.sqrt(x) of x >= 0 or NaN, and Math.sqrt(x) / y for y > 0
Sqrt(x) == [sqrtOf |-> x]
SqrtDiv(r, y) == Sqrt(RealDiv(r.sqrtOf, RealMul(y, y)))

\* r <= y for a square root r
SqrtLeq(r, y) ==
  /\ RealLeq(Real(0, 1), y)
  /\ RealLeq(r.sqrtOf, IF y.kind = "finite" THEN RealMul(y, y) ELSE y)

\* Map.get(k) || 0 and Map.set(k, v) on a Map<number, number>
MapGetOrZero(m, k) == IF k \in DOMAIN m THEN m[k] ELSE 0
MapSet(m, k, v) ==
  IF k \in DOMAIN m THEN [m EXCEPT ![k] = v]
  ELSE [x \in (DOMAIN m) \cup {k} |-> IF x = k THEN v ELSE m[x]]

\* Array.from(map.values()) of a map with the keys 0..k-1, in insertion order
MapValues(m) == [i \in 1..Cardinality(DOMAIN m) |-> m[i - 1]]

\* the smallest count among the bins that hold an identifier
MathMinOfPopulated(counts) ==
  IF \A i \in DOMAIN counts : counts[i] = 0 THEN Real(0, 1)
  ELSE Real(CHOOSE c \in {counts[i] : i \in DOMAIN counts} \ {0} :
              \A d \in {counts[i] : i \in DOMAIN counts} \ {0} : c <= d, 1)

\* Math.min(...counts) and Math.max(...counts)
MathMin(counts) ==
  IF counts = <<>> THEN PosInfinity
  ELSE Real(CHOOSE c \in {counts[i] : i \in DOMAIN counts} :
              \A d \in {counts[i] : i \in DOMAIN counts} : c <= d, 1)
MathMax(counts) ==
  IF counts = <<>> THEN NegInfinity
  ELSE Real(CHOOSE c \in {counts[i] : i \in DOMAIN counts} :
              \A d \in {counts[i] : i \in DOMAIN counts} : c >= d, 1)

\* xs.reduce((a, b) => a + b, 0) over the elements lo..hi of finite numbers;
\* the sum is exact, so it is taken by halves
RECURSIVE ReduceSum(_, _, _)
ReduceSum(xs, lo, hi) ==
  IF lo > hi THEN Real(0, 1)
  ELSE IF lo = hi THEN xs[lo]
  ELSE RealAdd(ReduceSum(xs, lo, (lo + hi) \div 2),
               ReduceSum(xs, ((lo + hi) \div 2) + 1, hi))

\* counts as numbers
Reals(counts) == [i \in DOMAIN counts |-> Real(counts[i], 1)]

\* xs.reduce((a, b) => a + b, 0); the array is evaluated once
Sum(xs) == CHOOSE s \in {ReduceSum(v, 1, Len(v)) : v \in {xs}} : TRUE

\* counts.reduce((a, b) => a + b, 0) / counts.length
Mean(counts) == RealDiv(Sum(Reals(counts)), Real(Len(counts), 1))

\* counts.map((c) => Math.pow(c - mean, 2))
SquaredDiffs(counts, mean) ==
  [i \in DOMAIN counts |->
     RealMul(RealSub(Real(counts[i], 1), mean), RealSub(Real(counts[i], 1), mean))]

\* the returned object
StatsRecord(binCounts, counts, mean, variance) ==
  [binCounts |-> binCounts,
   min |-> MathMin(counts),
   max |-> MathMax(counts),
   mean |-> mean,
   stdDev |-> Sqrt(variance),
   variance |-> variance]

\* the statistics of counts: mean, then the sum of squared differences over
\* divisor; each constant of the function is evaluated once
StatsOfMean(binCounts, counts, mean, divisor) ==
  CHOOSE stats \in
    {StatsRecord(binCounts, counts, mean, variance) :
       variance \in {RealDiv(Sum(SquaredDiffs(counts, mean)), Real(divisor, 1))}} : TRUE

StatsOfCounts(binCounts, counts, divisor) ==
  CHOOSE stats \in
    {StatsOfMean(binCounts, counts, mean, divisor) : mean \in {Mean(counts)}} : TRUE

\* the statistics with the sample variance (divisor n - 1) for the variance
DistributionStatsSampleVariance(binCounts) ==
  CHOOSE stats \in
    {StatsOfCounts(m, counts, IF Len(counts) > 1 THEN Len(counts) - 1 ELSE Len(counts)) :
       m \in {binCounts}, counts \in {MapValues(binCounts)}} : TRUE

\* what analyzeDistribution returns for the bin counts it has gathered
DistributionStats(binCounts) ==
  CHOOSE stats \in
    {StatsOfCounts(m, counts, Len(counts)) :
       m \in {binCounts}, counts \in {MapValues(binCounts)}} : TRUE

\* for (let i = 0; i < binCount; i++) binCounts.set(i, 0)
InitBinCounts(binCount) == [i \in 0..(binCount - 1) |-> 0]

\* the counting loop of analyzeDistribution from identifier i on; a throw of
\* computeOffset leaves the loop and the function
\* one pass of the counting loop: the bin of patientId gets one more
CountOne(binCounts, patientId, binCount) ==
  LET offset == computeOffset(patientId, binCount)
  IN IF offset.ok
       THEN Return(MapSet(binCounts, offset.v, MapGetOrZero(binCounts, offset.v) + 1))
       ELSE offset

RECURSIVE CountLoop(_, _, _, _)
CountLoop(patientIds, binCount, i, acc) ==
  IF i > Len(patientIds) \/ ~acc.ok THEN acc
  ELSE CountLoop(patientIds, binCount, i + 1, CountOne(acc.v, patientIds[i], binCount))

\* analyzeDistribution leaving out the identifiers computeOffset rejects
analyzeDistributionSkipping(patientIds, binCount) ==
  LET Usable(id) == computeOffset(id, binCount).ok
  IN CHOOSE r \in
       {IF counted.ok THEN Return(DistributionStats(counted.v)) ELSE counted :
          counted \in {CountLoop(SelectSeq(patientIds, Usable), binCount, 1,
                         Return(InitBinCounts(DefaultParam(binCount, DEFAULT_BIN_COUNT))))}} :
       TRUE

\* the bins are counted, then the statistics taken, unless computeOffset threw
analyzeDistribution(patientIds, binCount) ==
  CHOOSE r \in
    {IF counted.ok THEN Return(DistributionStats(counted.v)) ELSE counted :
       counted \in {CountLoop(patientIds, binCount, 1,
                      Return(InitBinCounts(DefaultParam(binCount, DEFAULT_BIN_COUNT))))}} :
    TRUE

\* maxVariance = 0.15, taken as the fraction 3/20
DefaultMaxVariance == Real(3, 20)

\* cv <= maxVariance for the statistics analyzeDistribution returned
AcceptableStats(stats, maxVariance) ==
  SqrtLeq(IF RealPositive(stats.mean)
            THEN SqrtDiv(stats.stdDev, stats.mean)
            ELSE Sqrt(Real(0, 1)),
          DefaultNumber(maxVariance, DefaultMaxVariance))

isDistributionAcceptable(patientIds, binCount, maxVariance) ==
  CHOOSE r \in
    {IF stats.ok THEN Return(AcceptableStats(stats.v, maxVariance)) ELSE stats :
       stats \in {analyzeDistribution(patientIds, binCount)}} : TRUE

(***************************************************************************)
(* TaskGenerator.ts                                                        *)
(***************************************************************************)
\* no instance has been constructed yet
NoGenerator == [live |-> FALSE, intervalSeconds |-> 0, binCount |-> 0]

\* the constructor without the binCount > intervalSeconds check
TaskGeneratorUncheckedBins(config) ==
  LET intervalSeconds == Coalesce(config.intervalSeconds, SCRAPE_INTERVAL_SECONDS)
      binCount == Coalesce(config.binCount, DEFAULT_BIN_COUNT)
  IN IF intervalSeconds <= 0 THEN Throw("Interval seconds must be positive")
     ELSE IF binCount <= 0 THEN Throw("Bin count must be positive")
     ELSE Return([live |-> TRUE, intervalSeconds |-> intervalSeconds,
                  binCount |-> binCount])

\* the constructor rejecting binCount = intervalSeconds as well
TaskGeneratorStrictBins(config) ==
  LET intervalSeconds == Coalesce(config.intervalSeconds, SCRAPE_INTERVAL_SECONDS)
      binCount == Coalesce(config.binCount, DEFAULT_BIN_COUNT)
  IN IF intervalSeconds <= 0 THEN Throw("Interval seconds must be positive")
     ELSE IF binCount <= 0 THEN Throw("Bin count must be positive")
     ELSE IF binCount >= intervalSeconds
       THEN Throw("Bin count cannot exceed interval seconds")
     ELSE Return([live |-> TRUE, intervalSeconds |-> intervalSeconds,
                  binCount |-> binCount])

\* the constructor taking one bin per second of the interval when binCount is omitted
TaskGeneratorBinsFromInterval(config) ==
  LET intervalSeconds == Coalesce(config.intervalSeconds, SCRAPE_INTERVAL_SECONDS)
      binCount == Coalesce(config.binCount, intervalSeconds)
  IN IF intervalSeconds <= 0 THEN Throw("Interval seconds must be positive")
     ELSE IF binCount <= 0 THEN Throw("Bin count must be positive")
     ELSE IF binCount > intervalSeconds
       THEN Throw("Bin count cannot exceed interval seconds")
     ELSE Return([live |-> TRUE, intervalSeconds |-> intervalSeconds,
                  binCount |-> binCount])

\* new TaskGenerator(config): the instance, or the configuration error
TaskGenerator(config) ==
  LET intervalSeconds == Coalesce(config.intervalSeconds, SCRAPE_INTERVAL_SECONDS)
      binCount == Coalesce(config.binCount, DEFAULT_BIN_COUNT)
  IN IF intervalSeconds <= 0 THEN Throw("Interval seconds must be positive")
     ELSE IF binCount <= 0 THEN Throw("Bin count must be positive")
     ELSE IF binCount > intervalSeconds
       THEN Throw("Bin count cannot exceed interval seconds")
     ELSE Return([live |-> TRUE, intervalSeconds |-> intervalSeconds,
                  binCount |-> binCount])

\* an element of a patients array: a PatientInput object, or null where the
\* caller passed no object (endpointUrl and riskLevel are never read)
Patient(id) == [t |-> "object", id |-> id]
NullPatient == [t |-> "null", id |-> Undefined]

\* randomUUID(): the value of the n-th draw; draws never repeat
randomUUID(n) == n

\* a task literal whose id is derived from the digest of the patient id
ScrapeTaskIdFromPatient(patient, offsetSeconds, fireAt, clock, drawn) ==
  IF ~offsetSeconds.ok THEN offsetSeconds
  ELSE IF ~fireAt.ok THEN fireAt
  ELSE Return([id |-> WordMod(ParseHex8(HexPrefix8(Digest(patient.id.s))), 1000),
               patientId |-> patient.id,
               fireAt |-> fireAt.v,
               offsetSeconds |-> offsetSeconds.v,
               status |-> "pending",
               consecutiveFailures |-> 0,
               createdAt |-> clock,
               completedAt |-> Undefined])

\* a task literal that carries over the count of tasks created before it
ScrapeTaskCarryingFailures(patient, offsetSeconds, fireAt, clock, drawn) ==
  IF ~offsetSeconds.ok THEN offsetSeconds
  ELSE IF ~fireAt.ok THEN fireAt
  ELSE Return([id |-> randomUUID(drawn + 1),
               patientId |-> patient.id,
               fireAt |-> fireAt.v,
               offsetSeconds |-> offsetSeconds.v,
               status |-> "pending",
               consecutiveFailures |-> drawn,
               createdAt |-> clock,
               completedAt |-> Undefined])

\* the task literal generateTaskForPatient returns, unless a hasher call threw
ScrapeTask(patient, offsetSeconds, fireAt, clock, drawn) ==
  IF ~offsetSeconds.ok THEN offsetSeconds
  ELSE IF ~fireAt.ok THEN fireAt
  ELSE Return([id |-> randomUUID(drawn + 1),
               patientId |-> patient.id,
               fireAt |-> fireAt.v,
               offsetSeconds |-> offsetSeconds.v,
               status |-> "pending",
               consecutiveFailures |-> 0,
               createdAt |-> clock,
               completedAt |-> Undefined])

\* generateTaskForPatient firing relative to the wall clock, not the cycle start
generateTaskForPatientFromClock(self, patient, cycleStart, clock, drawn) ==
  IF patient.t # "object"
    THEN Throw("TypeError: Cannot read properties of null (reading 'id')")
  ELSE IF Falsy(patient.id) THEN Throw("Patient ID is required")
  ELSE ScrapeTask(patient,
                  computeOffset(patient.id, Num(self.binCount)),
                  computeFireTime(patient.id, clock, Num(self.binCount)),
                  clock, drawn)

\* the next free bin, in place of the hashed one
SlotInOrder(offsetSeconds, drawn, binCount) ==
  IF offsetSeconds.ok THEN Return(drawn % binCount) ELSE offsetSeconds

\* generateTaskForPatient handing out bins in order of arrival
generateTaskForPatientRoundRobin(self, patient, cycleStart, clock, drawn) ==
  IF patient.t # "object"
    THEN Throw("TypeError: Cannot read properties of null (reading 'id')")
  ELSE IF Falsy(patient.id) THEN Throw("Patient ID is required")
  ELSE ScrapeTask(patient,
                  SlotInOrder(computeOffset(patient.id, Num(self.binCount)),
                              drawn, self.binCount),
                  FireTimeAt(cycleStart,
                    SlotInOrder(computeOffset(patient.id, Num(self.binCount)),
                                drawn, self.binCount)),
                  clock, drawn)

generateTaskForPatient(self, patient, cycleStart, clock, drawn) ==
  IF patient.t # "object"
    THEN Throw("TypeError: Cannot read properties of null (reading 'id')")
  ELSE IF Falsy(patient.id) THEN Throw("Patient ID is required")
  ELSE ScrapeTask(patient,
                  computeOffset(patient.id, Num(self.binCount)),
                  computeFireTime(patient.id, cycleStart, Num(self.binCount)),
                  clock, drawn)

\* a map that is not pre-seeded: a bin appears when its first task does
InitBinsLazy(binCount) == [i \in {} |-> 0]

\* for (let i = 0; i < binCount; i++) binDistribution.set(i, 0)
InitBins(binCount) == [i \in 0..(binCount - 1) |-> 0]

\* the try block dropping a task whose patient already has one in the batch
PushTaskOncePerPatient(acc, task) ==
  IF \E i \in DOMAIN acc.tasks : acc.tasks[i].patientId = task.patientId
    THEN [acc EXCEPT !.drawn = @ + 1]
    ELSE [acc EXCEPT !.tasks = Append(@, task),
                     !.binDistribution =
                        MapSet(@, task.offsetSeconds,
                               MapGetOrZero(acc.binDistribution, task.offsetSeconds) + 1),
                     !.drawn = @ + 1]

\* the try block keeping the task list ordered by fire time
PushTaskSortedByFireAt(acc, task) ==
  [acc EXCEPT !.tasks = SelectSeq(@, LAMBDA t : t.fireAt <= task.fireAt)
                          \o <<task>>
                          \o SelectSeq(@, LAMBDA t : t.fireAt > task.fireAt),
              !.binDistribution =
                 MapSet(@, task.offsetSeconds,
                        MapGetOrZero(acc.binDistribution, task.offsetSeconds) + 1),
              !.drawn = @ + 1]

\* the try block counting into a bin the tasks created since the process started
PushTaskRunningTotal(acc, task) ==
  [acc EXCEPT !.tasks = Append(@, task),
              !.binDistribution = MapSet(@, task.offsetSeconds, acc.drawn + 1),
              !.drawn = @ + 1]

\* the try block after generateTaskForPatient returned task
PushTask(acc, task) ==
  [acc EXCEPT !.tasks = Append(@, task),
              !.binDistribution =
                 MapSet(@, task.offsetSeconds,
                        MapGetOrZero(acc.binDistribution, task.offsetSeconds) + 1),
              !.drawn = @ + 1]

\* a catch block that rethrows: the first bad record ends the batch
CatchErrorRethrow(acc, patient) ==
  [acc EXCEPT !.ok = FALSE,
     !.err = IF patient.t # "object"
               THEN "TypeError: Cannot read properties of null (reading 'id')"
               ELSE "Patient ID is required"]

\* a catch block that files the skipped record under bin 0
CatchErrorCountingSkipped(acc, patient) ==
  IF patient.t # "object"
    THEN [acc EXCEPT !.ok = FALSE,
            !.err = "TypeError: Cannot read properties of null (reading 'id')"]
    ELSE [acc EXCEPT !.logged = @ + 1,
            !.binDistribution = MapSet(@, 0, MapGetOrZero(acc.binDistribution, 0) + 1)]

\* the catch block: the message reads patient.id, which throws when the
\* element is no object, and that throw leaves the loop
CatchError(acc, patient) ==
  IF patient.t # "object"
    THEN [acc EXCEPT !.ok = FALSE,
            !.err = "TypeError: Cannot read properties of null (reading 'id')"]
    ELSE [acc EXCEPT !.logged = @ + 1]

\* one iteration of the for-of loop: r is what generateTaskForPatient gave
LoopBody(acc, patient, r) ==
  IF r.ok THEN PushTask(acc, r.v) ELSE CatchError(acc, patient)

\* the for-of loop of generateTasksForPatients from record i on; acc holds the
\* tasks, the bin counts, the UUIDs drawn and the errors logged so far
RECURSIVE BatchLoop(_, _, _, _, _, _)
BatchLoop(self, patients, cycleStart, clock, i, acc) ==
  IF i > Len(patients) \/ ~acc.ok THEN acc
  ELSE BatchLoop(self, patients, cycleStart, clock, i + 1,
         LoopBody(acc, patients[i],
           generateTaskForPatient(self, patients[i], cycleStart, clock, acc.drawn)))

\* the result with totalPatients counting the tasks, not the input records
TaskGenerationResultCountingTasks(patients, acc, startTime, endTime) ==
  [ok |-> acc.ok, err |-> acc.err, drawn |-> acc.drawn, logged |-> acc.logged,
   tasks |-> IF acc.ok THEN acc.tasks ELSE <<>>,
   stats |-> [totalPatients |-> IF acc.ok THEN Len(acc.tasks) ELSE 0,
              tasksGenerated |-> IF acc.ok THEN Len(acc.tasks) ELSE 0,
              binDistribution |-> IF acc.ok THEN acc.binDistribution ELSE InitBins(0),
              generationTimeMs |-> IF acc.ok THEN endTime - startTime ELSE 0]]

\* the object generateTasksForPatients returns once the loop has ended in acc
\* (nothing is returned when the loop threw)
TaskGenerationResult(patients, acc, startTime, endTime) ==
  [ok |-> acc.ok, err |-> acc.err, drawn |-> acc.drawn, logged |-> acc.logged,
   tasks |-> IF acc.ok THEN acc.tasks ELSE <<>>,
   stats |-> [totalPatients |-> IF acc.ok THEN Len(patients) ELSE 0,
              tasksGenerated |-> IF acc.ok THEN Len(acc.tasks) ELSE 0,
              binDistribution |-> IF acc.ok THEN acc.binDistribution ELSE InitBins(0),
              generationTimeMs |-> IF acc.ok THEN endTime - startTime ELSE 0]]

\* clock is Date.now() at the call (no time passes within a call), drawn the
\* number of UUIDs drawn before it
generateTasksForPatients(self, patients, cycleStart, clock, drawn) ==
  TaskGenerationResult(patients,
    BatchLoop(self, patients, cycleStart, clock, 1,
      [tasks |-> <<>>, binDistribution |-> InitBins(self.binCount),
       drawn |-> drawn, logged |-> 0, ok |-> TRUE, err |-> ""]),
    clock, clock)

\* Math.ceil(a / b) for a >= 0, b > 0
CeilDiv(a, b) == (a + b - 1) \div b

\* the boundary after the clock reading, also when the reading is on a boundary
NextCycleStartStrictlyAfter(self, clock) ==
  LET intervalMs == self.intervalSeconds * 1000
  IN ((clock \div intervalMs) + 1) * intervalMs

\* the boundary nearest to the clock reading: Math.round for Math.ceil
NextCycleStartNearest(self, clock) ==
  LET intervalMs == self.intervalSeconds * 1000
  IN ((2 * clock + intervalMs) \div (2 * intervalMs)) * intervalMs

\* the boundary of the cycle in progress: Math.floor for Math.ceil
NextCycleStartCurrent(self, clock) ==
  LET intervalMs == self.intervalSeconds * 1000
  IN (clock \div intervalMs) * intervalMs

\* the cycle start generateTasksForNextCycle computes from Date.now()
NextCycleStart(self, clock) ==
  LET intervalMs == self.intervalSeconds * 1000
  IN CeilDiv(clock, intervalMs) * intervalMs

\* getPatientOffset leaving the bin count to computeOffset's default
getPatientOffsetDefaultBins(self, patientId) == computeOffset(patientId, Undefined)

getPatientOffset(self, patientId) == computeOffset(patientId, Num(self.binCount))

\* patients.map((p) => p.id): reading the id of an element that is no object throws
MapIds(patients) ==
  IF \E i \in DOMAIN patients : patients[i].t # "object"
    THEN Throw("TypeError: Cannot read properties of null (reading 'id')")
    ELSE Return([i \in DOMAIN patients |-> patients[i].id])

\* the method leaving the bin count to the default of the hasher function
TaskGenerator_analyzeDistributionDefaultBins(self, patients) ==
  LET patientIds == MapIds(patients)
  IN IF patientIds.ok THEN analyzeDistribution(patientIds.v, Undefined)
     ELSE patientIds

\* the method analyzeDistribution(patients) of the class
TaskGenerator_analyzeDistribution(self, patients) ==
  LET patientIds == MapIds(patients)
  IN IF patientIds.ok THEN analyzeDistribution(patientIds.v, Num(self.binCount))
     ELSE patientIds

getConfig(self) == [intervalSeconds |-> self.intervalSeconds, binCount |-> self.binCount]

(***************************************************************************)
(* The inputs callers hand in.                                             *)
(***************************************************************************)
\* intervalSeconds / binCount of a TaskGeneratorConfig: omitted, or a number
ConfigValues == {Undefined} \cup {Num(k) : k \in {-1, 0, 2, 300, 301}}
Configs == [intervalSeconds : ConfigValues, binCount : ConfigValues]

\* patient ids: undefined, "", " ", the number 5, "a", "c", " a"
IdValues ==
  {Undefined, Str(<<>>), Str(<<32>>), Num(5), Str(<<97>>), Str(<<99>>), Str(<<32, 97>>)}

\* elements of a patients array
PatientInputs ==
  {NullPatient} \cup
  {Patient(v) : v \in {Undefined, Str(<<>>), Str(<<32>>), Num(5), Str(<<97>>), Str(<<99>>)}}

SeqsUpTo(S, n) == UNION {[1..k -> S] : k \in 0..n}

PatientLists == SeqsUpTo(PatientInputs, MaxPatients)

\* the binCount argument of direct calls of the hasher functions: omitted, or a number
BinCountArgs == {Undefined} \cup {Num(k) : k \in {-1, 0, 2, 3}}

\* identifier lists handed to the statistics functions: "", " ", "a", "c", " a"
AnalyzeIds == {Str(<<>>), Str(<<32>>), Str(<<97>>), Str(<<99>>), Str(<<32, 97>>)}
IdLists == SeqsUpTo(AnalyzeIds, MaxPatients)

\* the maxVariance argument: omitted, 0, 1/2, 1, -1
MaxVarianceArgs == {Omitted, Real(0, 1), Real(1, 2), Real(1, 1), Real(-1, 1)}

\* the generators whose populations are analysed: 2 bins, and the default 300
AnalyzeConfigs ==
  {[intervalSeconds |-> Num(2), binCount |-> Num(2)],
   [intervalSeconds |-> Num(300), binCount |-> Num(2)],
   [intervalSeconds |-> Undefined, binCount |-> Undefined]}

\* cycle starts (ms): on and off a second boundary
CycleStarts == {0, 500, 1000}

\* the values Date.now() takes: on a boundary of a two-second cycle, and past one
ClockReadings == {0, 1, 2000, 2001}

\* what a caller comparing results across calls and instances uses: two valid
\* patients, two instances with the same bin count, consecutive cycles
CompareConfigs ==
  {[intervalSeconds |-> Num(2), binCount |-> Num(2)],
   [intervalSeconds |-> Num(300), binCount |-> Num(2)]}
CompareIds == {Str(<<97>>), Str(<<99>>)}
ComparePatients == {Patient(v) : v \in CompareIds}
CompareLists == SeqsUpTo(ComparePatients, MaxPatients)
CompareBinCounts == {Num(2), Num(3)}

(***************************************************************************)
(* What the caller sees of a call: the operation, the instance it ran on,  *)
(* its arguments, and what it returned or threw.                           *)
(***************************************************************************)
NoStats ==
  [totalPatients |-> 0, tasksGenerated |-> 0, binDistribution |-> InitBins(0),
   generationTimeMs |-> 0]

NoAnalysis ==
  [binCounts |-> InitBinCounts(0), min |-> Real(0, 1), max |-> Real(0, 1),
   mean |-> Real(0, 1), stdDev |-> Sqrt(Real(0, 1)), variance |-> Real(0, 1)]

Idle ==
  [op |-> "none", self |-> NoGenerator,
   config |-> [intervalSeconds |-> Undefined, binCount |-> Undefined],
   patients |-> <<>>, id |-> Undefined, binCount |-> Undefined, cycleStart |-> 0,
   clock |-> 0, ok |-> TRUE, err |-> "", value |-> 0, cfg |-> NoGenerator,
   tasks |-> <<>>, stats |-> NoStats, logged |-> 0,
   ids |-> <<>>, maxVariance |-> Omitted, analysis |-> NoAnalysis, accepted |-> FALSE]

Init ==
  /\ gen = NoGenerator
  /\ now = 0
  /\ uuidCount = 0
  /\ ret = Idle
  /\ held = Idle

\* const g = new TaskGenerator(config): g is bound only when construction succeeds
Construct(config) ==
  /\ ret = Idle
  /\ \E r \in {TaskGenerator(config)} :
       /\ gen' = IF r.ok THEN r.v ELSE gen
       /\ ret' = [Idle EXCEPT !.op = "new", !.config = config, !.clock = now,
                              !.ok = r.ok, !.err = r.err,
                              !.self = IF r.ok THEN r.v ELSE NoGenerator]
  /\ UNCHANGED <<now, uuidCount, held>>

GetConfig ==
  /\ ret = Idle
  /\ gen.live
  /\ ret' = [Idle EXCEPT !.op = "getConfig", !.self = gen, !.clock = now,
                         !.cfg = getConfig(gen)]
  /\ UNCHANGED <<gen, now, uuidCount, held>>

ComputeOffset(patientId, binCount) ==
  /\ ret = Idle
  /\ \E r \in {computeOffset(patientId, binCount)} :
       ret' = [Idle EXCEPT !.op = "computeOffset", !.id = patientId,
                           !.binCount = binCount, !.clock = now,
                           !.ok = r.ok, !.err = r.err, !.value = r.v]
  /\ UNCHANGED <<gen, now, uuidCount, held>>

ComputeFireTime(patientId, cycleStart, binCount) ==
  /\ ret = Idle
  /\ \E r \in {computeFireTime(patientId, cycleStart, binCount)} :
       ret' = [Idle EXCEPT !.op = "computeFireTime", !.id = patientId,
                           !.binCount = binCount, !.cycleStart = cycleStart,
                           !.clock = now, !.ok = r.ok, !.err = r.err, !.value = r.v]
  /\ UNCHANGED <<gen, now, uuidCount, held>>

GetPatientOffset(patientId) ==
  /\ ret = Idle
  /\ gen.live
  /\ \E r \in {getPatientOffset(gen, patientId)} :
       ret' = [Idle EXCEPT !.op = "getPatientOffset", !.self = gen, !.id = patientId,
                           !.clock = now, !.ok = r.ok, !.err = r.err, !.value = r.v]
  /\ UNCHANGED <<gen, now, uuidCount, held>>

GenerateTaskForPatient(patient, cycleStart) ==
  /\ ret = Idle
  /\ gen.live
  /\ uuidCount < MaxUuid
  /\ \E r \in {generateTaskForPatient(gen, patient, cycleStart, now, uuidCount)} :
       /\ ret' = [Idle EXCEPT !.op = "generateTaskForPatient", !.self = gen,
                              !.patients = <<patient>>, !.cycleStart = cycleStart,
                              !.clock = now, !.ok = r.ok, !.err = r.err,
                              !.tasks = IF r.ok THEN <<r.v>> ELSE <<>>]
       /\ uuidCount' = IF r.ok THEN uuidCount + 1 ELSE uuidCount
  /\ UNCHANGED <<gen, now, held>>

GenerateTasksForPatients(patients, cycleStart) ==
  /\ ret = Idle
  /\ gen.live
  /\ uuidCount < MaxUuid
  /\ \E r \in {generateTasksForPatients(gen, patients, cycleStart, now, uuidCount)} :
       /\ ret' = [Idle EXCEPT !.op = "generateTasksForPatients", !.self = gen,
                              !.patients = patients, !.cycleStart = cycleStart,
                              !.clock = now, !.ok = r.ok, !.err = r.err,
                              !.tasks = r.tasks, !.stats = r.stats,
                              !.logged = r.logged]
       /\ uuidCount' = r.drawn
  /\ UNCHANGED <<gen, now, held>>

\* generateTasksForNextCycle(patients): the batch call at the next boundary
GenerateTasksForNextCycle(patients) ==
  /\ ret = Idle
  /\ gen.live
  /\ uuidCount < MaxUuid
  /\ \E r \in {generateTasksForPatients(gen, patients, NextCycleStart(gen, now),
                                         now, uuidCount)} :
       /\ ret' = [Idle EXCEPT !.op = "generateTasksForNextCycle", !.self = gen,
                              !.patients = patients, !.cycleStart = NextCycleStart(gen, now),
                              !.clock = now, !.ok = r.ok, !.err = r.err,
                              !.tasks = r.tasks, !.stats = r.stats,
                              !.logged = r.logged]
       /\ uuidCount' = r.drawn
  /\ UNCHANGED <<gen, now, held>>

AnalyzeDistribution(patientIds, binCount) ==
  /\ ret = Idle
  /\ \E r \in {analyzeDistribution(patientIds, binCount)} :
       ret' = [Idle EXCEPT !.op = "analyzeDistribution", !.ids = patientIds,
                           !.binCount = binCount, !.clock = now,
                           !.ok = r.ok, !.err = r.err,
                           !.analysis = IF r.ok THEN r.v ELSE NoAnalysis]
  /\ UNCHANGED <<gen, now, uuidCount, held>>

IsDistributionAcceptable(patientIds, binCount, maxVariance) ==
  /\ ret = Idle
  /\ \E r \in {isDistributionAcceptable(patientIds, binCount, maxVariance)} :
       ret' = [Idle EXCEPT !.op = "isDistributionAcceptable", !.ids = patientIds,
                           !.binCount = binCount, !.maxVariance = maxVariance,
                           !.clock = now, !.ok = r.ok, !.err = r.err,
                           !.accepted = IF r.ok THEN r.v ELSE FALSE]
  /\ UNCHANGED <<gen, now, uuidCount, held>>

\* generator.analyzeDistribution(patients)
GeneratorAnalyzeDistribution(patients) ==
  /\ ret = Idle
  /\ gen.live
  /\ \E r \in {TaskGenerator_analyzeDistribution(gen, patients)} :
       ret' = [Idle EXCEPT !.op = "TaskGenerator.analyzeDistribution", !.self = gen,
                           !.patients = patients, !.clock = now,
                           !.ok = r.ok, !.err = r.err,
                           !.analysis = IF r.ok THEN r.v ELSE NoAnalysis]
  /\ UNCHANGED <<gen, now, uuidCount, held>>

\* generator.analyzeDistribution(generatePatients(10000)), entered: the bins are
\* initialised and no identifier is counted yet
EnterPopulationAnalysis ==
  /\ ret = Idle
  /\ gen.live
  /\ ret' = [Idle EXCEPT !.op = "analyzeDistribution.counting", !.self = gen,
                         !.clock = now, !.value = 0,
                         !.analysis = [NoAnalysis EXCEPT
                                         !.binCounts = InitBinCounts(gen.binCount)]]
  /\ UNCHANGED <<gen, now, uuidCount, held>>

\* one pass of its counting loop, for the identifier generatePatients put at
\* index ret.value
CountPopulationId ==
  /\ ret.op = "analyzeDistribution.counting"
  /\ ret.value < TestPopulationSize
  /\ \E r \in {CountOne(ret.analysis.binCounts, generatePatientId(ret.value),
                        Num(ret.self.binCount))} :
       ret' = IF r.ok
                THEN [ret EXCEPT !.value = @ + 1, !.analysis.binCounts = r.v]
                ELSE [ret EXCEPT !.op = "analyzeDistribution.population",
                                 !.ok = FALSE, !.err = r.err, !.analysis = NoAnalysis]
  /\ UNCHANGED <<gen, now, uuidCount, held>>

\* the loop is through: the statistics are computed and returned
ReturnPopulationAnalysis ==
  /\ ret.op = "analyzeDistribution.counting"
  /\ ret.value = TestPopulationSize
  /\ ret' = [ret EXCEPT !.op = "analyzeDistribution.population",
                        !.analysis = DistributionStats(ret.analysis.binCounts)]
  /\ UNCHANGED <<gen, now, uuidCount, held>>

\* time passes between calls
Tick ==
  /\ ret = Idle
  /\ \E t \in ClockReadings : t > now /\ now' = t
  /\ UNCHANGED <<gen, uuidCount, ret, held>>

\* the caller is done with the result of a call that returned or threw
Discard ==
  /\ ret # Idle
  /\ ret.op # "analyzeDistribution.counting"
  /\ ret' = Idle
  /\ UNCHANGED <<gen, now, uuidCount, held>>

\* the caller keeps the result to compare later ones with
Keep ==
  /\ ret # Idle
  /\ ret.op # "analyzeDistribution.counting"
  /\ held' = ret
  /\ ret' = Idle
  /\ UNCHANGED <<gen, now, uuidCount>>

Next ==
  \/ \E config \in Configs : Construct(config)
  \/ GetConfig
  \/ \E id \in IdValues, n \in BinCountArgs : ComputeOffset(id, n)
  \/ \E id \in IdValues, c \in CycleStarts, n \in BinCountArgs : ComputeFireTime(id, c, n)
  \/ \E id \in IdValues : GetPatientOffset(id)
  \/ \E p \in PatientInputs, c \in CycleStarts : GenerateTaskForPatient(p, c)
  \/ \E ps \in PatientLists, c \in CycleStarts : GenerateTasksForPatients(ps, c)
  \/ \E ps \in PatientLists : GenerateTasksForNextCycle(ps)
  \/ Tick
  \/ Discard

Spec == Init /\ [][Next]_vars

(***************************************************************************)
(* A caller that keeps one result and compares later ones with it, and     *)
(* that schedules the cycle following the one it kept.                     *)
(***************************************************************************)
GeneratingOps ==
  {"generateTaskForPatient", "generateTasksForPatients", "generateTasksForNextCycle"}

\* the start of the cycle after the kept one, for the instance in use
FollowingCycles ==
  IF /\ held.op \in GeneratingOps
     /\ gen.live
     /\ held.cycleStart < MaxCycles * gen.intervalSeconds * 1000
    THEN {held.cycleStart + gen.intervalSeconds * 1000}
    ELSE {}

NextCompare ==
  \/ \E config \in CompareConfigs : Construct(config)
  \/ \E id \in CompareIds, n \in CompareBinCounts : ComputeOffset(id, n)
  \/ \E id \in CompareIds : GetPatientOffset(id)
  \/ \E p \in ComparePatients, c \in CycleStarts \cup FollowingCycles :
       GenerateTaskForPatient(p, c)
  \/ \E ps \in CompareLists, c \in CycleStarts \cup FollowingCycles :
       GenerateTasksForPatients(ps, c)
  \/ \E ps \in CompareLists : GenerateTasksForNextCycle(ps)
  \/ Keep
  \/ Discard

SpecCompare == Init /\ [][NextCompare]_vars

(***************************************************************************)
(* A scheduler that calls generateTasksForNextCycle as the clock advances  *)
(* and keeps a result to compare the following ones with.                  *)
(***************************************************************************)
NextClock ==
  \/ \E config \in CompareConfigs : Construct(config)
  \/ \E ps \in CompareLists : GenerateTasksForNextCycle(ps)
  \/ Tick
  \/ Keep
  \/ Discard

SpecClock == Init /\ [][NextClock]_vars

(***************************************************************************)
(* The distribution test: a generator with the default configuration       *)
(* analyses the population of 10,000 generated patients, one identifier    *)
(* of the counting loop at a time.                                         *)
(***************************************************************************)
DefaultConfig == [intervalSeconds |-> Undefined, binCount |-> Undefined]

NextPopulation ==
  \/ Construct(DefaultConfig)
  \/ EnterPopulationAnalysis
  \/ CountPopulationId
  \/ ReturnPopulationAnalysis
  \/ Discard

SpecPopulation == Init /\ [][NextPopulation]_vars

(***************************************************************************)
(* A caller that monitors the quality of the distribution.                 *)
(***************************************************************************)
NextAnalyze ==
  \/ \E config \in AnalyzeConfigs : Construct(config)
  \/ \E ids \in IdLists, n \in BinCountArgs : AnalyzeDistribution(ids, n)
  \/ \E ids \in IdLists, n \in BinCountArgs, m \in MaxVarianceArgs :
       IsDistributionAcceptable(ids, n, m)
  \/ \E ps \in PatientLists : GeneratorAnalyzeDistribution(ps)
  \/ Discard

SpecAnalyze == Init /\ [][NextAnalyze]_vars

(***************************************************************************)
(* Vocabulary of the properties.                                           *)
(***************************************************************************)
Range(f) == {f[i] : i \in DOMAIN f}

Generating(call) == call.op \in GeneratingOps
Batch(call) == call.op \in {"generateTasksForPatients", "generateTasksForNextCycle"}

\* a string with a character that is not white space
NonBlankString(v) ==
  /\ v.t = "string"
  /\ \E i \in 1..Len(v.s) : v.s[i] \notin {9, 10, 11, 12, 13, 32}

\* a patients element that is a record with a usable id
ValidRecord(p) == p.t = "object" /\ NonBlankString(p.id)

\* a patients element that is a record whose id is a string or is missing
TypedRecord(p) == p.t = "object" /\ p.id.t \in {"string", "undefined"}

Count(seq, Test(_)) == Cardinality({i \in DOMAIN seq : Test(seq[i])})

\* the bin count a direct hasher call works with: 300 when the argument is omitted
BinsOf(call) == IF call.binCount = Undefined THEN 300 ELSE call.binCount.n

\* the offsets a call let its caller see: <<identifier, bin count, offset>>
ObservedOffsets(call) ==
  IF call.op = "computeOffset" /\ call.ok
    THEN {<<call.id, BinsOf(call), call.value>>}
  ELSE IF call.op = "getPatientOffset" /\ call.ok
    THEN {<<call.id, call.self.binCount, call.value>>}
  ELSE IF Generating(call)
    THEN {<<t.patientId, call.self.binCount, t.offsetSeconds>> : t \in Range(call.tasks)}
  ELSE {}

(***************************************************************************)
(* C1. Determinism: whatever was called before or in between, and on       *)
(* whichever generator instance, any two offsets observed for the same     *)
(* identifier and the same bin count are equal.                            *)
(***************************************************************************)
C1_Determinism ==
  \A o1, o2 \in ObservedOffsets(held) \cup ObservedOffsets(ret) :
    (o1[1] = o2[1] /\ o1[2] = o2[2]) => o1[3] = o2[3]

\* an offset read from one instance and the task a differently configured
\* instance with the same bin count emitted later for the same patient
C1_Witness ==
  /\ held.op = "getPatientOffset" /\ held.ok
  /\ ret.op = "generateTasksForPatients" /\ ret.ok
  /\ ret.self.binCount = held.self.binCount
  /\ ret.self.intervalSeconds # held.self.intervalSeconds
  /\ uuidCount > Len(ret.tasks)
  /\ \E t \in Range(ret.tasks) : t.patientId = held.id /\ t.offsetSeconds = 1

(***************************************************************************)
(* C2. Range bound: for an identifier that is not blank and n > 0,         *)
(* computeOffset returns an offset with 0 <= offset < n; every emitted     *)
(* task has 0 <= offsetSeconds < binCount.                                 *)
(***************************************************************************)
C2_RangeBound ==
  /\ (ret.op = "computeOffset" /\ NonBlankString(ret.id) /\ BinsOf(ret) > 0)
       => (ret.ok /\ ret.value \in 0..(BinsOf(ret) - 1))
  /\ Generating(ret)
       => \A t \in Range(ret.tasks) : t.offsetSeconds \in 0..(ret.self.binCount - 1)

\* the largest offset of a three-bin cycle is returned
C2_Witness ==
  /\ ret.op = "computeOffset" /\ ret.ok
  /\ ret.binCount = Num(3) /\ ret.value = 2

(***************************************************************************)
(* C3. Every task of a constructed generator fires within its cycle:       *)
(* cycleStart <= fireAt < cycleStart + intervalSeconds.                    *)
(***************************************************************************)
C3_FireAtWithinCycle ==
  Generating(ret) =>
    \A t \in Range(ret.tasks) :
      /\ ret.cycleStart <= t.fireAt
      /\ t.fireAt < ret.cycleStart + ret.self.intervalSeconds * 1000

\* a task in the last second of a two-second cycle
C3_Witness ==
  /\ ret.op = "generateTasksForPatients" /\ ret.ok
  /\ ret.self.intervalSeconds = 2
  /\ \E t \in Range(ret.tasks) : t.fireAt = ret.cycleStart + 1000

(***************************************************************************)
(* C4. No gap: for one generator, a patient's tasks in two consecutive     *)
(* cycles (starts c and c + intervalSeconds) have the same offsetSeconds   *)
(* and fire exactly intervalSeconds apart.                                 *)
(***************************************************************************)
ConsecutiveCycles ==
  /\ Generating(held) /\ Generating(ret)
  /\ held.self = ret.self
  /\ ret.cycleStart = held.cycleStart + ret.self.intervalSeconds * 1000

C4_NoGap ==
  ConsecutiveCycles =>
    \A t1 \in Range(held.tasks), t2 \in Range(ret.tasks) :
      t1.patientId = t2.patientId =>
        /\ t2.fireAt - t1.fireAt = ret.self.intervalSeconds * 1000
        /\ t2.offsetSeconds = t1.offsetSeconds

\* the second and third of three cycles of a 300 s generator, a patient in both
C4_Witness ==
  /\ ConsecutiveCycles
  /\ ret.self.intervalSeconds = 300
  /\ held.cycleStart = 300500
  /\ \E t1 \in Range(held.tasks), t2 \in Range(ret.tasks) :
       t1.patientId = t2.patientId /\ t1.offsetSeconds = 1

(***************************************************************************)
(* C5. Partial-failure containment: a batch whose elements are records,    *)
(* some with a missing, empty or blank id, returns normally, with one task *)
(* per record that has a usable id and none for the others.                *)
(***************************************************************************)
C5_PartialFailure ==
  (Batch(ret) /\ \A p \in Range(ret.patients) : TypedRecord(p)) =>
    /\ ret.ok
    /\ Len(ret.tasks) = Count(ret.patients, ValidRecord)
    /\ \A t \in Range(ret.tasks) : NonBlankString(t.patientId)

\* a bad record first, a good one after it
C5_Witness ==
  /\ ret.op = "generateTasksForPatients" /\ ret.ok
  /\ Len(ret.patients) = 2
  /\ ret.patients[1] = Patient(Str(<<32>>))
  /\ ValidRecord(ret.patients[2])
  /\ Len(ret.tasks) = 1

(***************************************************************************)
(* C6. The batch call never fails because of one bad element, whatever     *)
(* the element is: generateTasksForPatients always returns.                *)
(***************************************************************************)
C6_BatchNeverThrows == Batch(ret) => ret.ok

(***************************************************************************)
(* C7. Construction fails exactly when, with 300 taken for an omitted      *)
(* field, intervalSeconds <= 0 or binCount <= 0 or binCount >              *)
(* intervalSeconds; otherwise the instance has the effective values and    *)
(* getConfig returns them.                                                 *)
(***************************************************************************)
Effective(v) == IF v = Undefined THEN 300 ELSE v.n

C7_ConfigRejection ==
  /\ ret.op = "new" =>
       LET i == Effective(ret.config.intervalSeconds)
           b == Effective(ret.config.binCount)
       IN /\ ret.ok <=> ~(i <= 0 \/ b <= 0 \/ b > i)
          /\ ret.ok => /\ gen = [live |-> TRUE, intervalSeconds |-> i, binCount |-> b]
                       /\ ret.self = gen
  /\ ret.op = "getConfig" =>
       ret.cfg = [intervalSeconds |-> gen.intervalSeconds, binCount |-> gen.binCount]

\* new TaskGenerator() succeeded with 300 / 300
C7_Witness ==
  /\ ret.op = "new" /\ ret.ok
  /\ ret.config = [intervalSeconds |-> Undefined, binCount |-> Undefined]
  /\ gen.intervalSeconds = 300 /\ gen.binCount = 300

\* new TaskGenerator({intervalSeconds: 2, binCount: 300}) threw
C7_WitnessRejected ==
  /\ ret.op = "new" /\ ~ret.ok
  /\ ret.config = [intervalSeconds |-> Num(2), binCount |-> Num(300)]

(***************************************************************************)
(* C8. Stability under growth: with the same generator and cycle start, a  *)
(* patient gets the same offsetSeconds and fireAt whatever other patients  *)
(* the population holds, and getPatientOffset of an id does not change.    *)
(***************************************************************************)
SameGeneratorAndCycle ==
  /\ Batch(held) /\ Batch(ret)
  /\ held.self = ret.self
  /\ held.cycleStart = ret.cycleStart

C8_StableUnderGrowth ==
  /\ SameGeneratorAndCycle =>
       \A t1 \in Range(held.tasks), t2 \in Range(ret.tasks) :
         t1.patientId = t2.patientId =>
           /\ t2.offsetSeconds = t1.offsetSeconds
           /\ t2.fireAt = t1.fireAt
  /\ (/\ held.op = "getPatientOffset" /\ ret.op = "getPatientOffset"
      /\ held.self = ret.self /\ held.id = ret.id)
       => (held.ok = ret.ok /\ held.value = ret.value)

\* the population <<c>> grew into <<a, c>>
C8_Witness ==
  /\ SameGeneratorAndCycle
  /\ held.patients = <<Patient(Str(<<99>>))>>
  /\ ret.patients = <<Patient(Str(<<97>>)), Patient(Str(<<99>>))>>
  /\ Len(ret.tasks) = 2 /\ Len(held.tasks) = 1

(***************************************************************************)
(* C9. One batch holds exactly one task per valid input record: a patient  *)
(* id on k valid records is on exactly k tasks, so patient ids that are    *)
(* pairwise distinct in the input are on exactly one task each.            *)
(***************************************************************************)
TasksOf(call, id) == {i \in DOMAIN call.tasks : call.tasks[i].patientId = id}
RecordsOf(call, id) ==
  {i \in DOMAIN call.patients : call.patients[i].t = "object" /\ call.patients[i].id = id}

Invalid(p) == ~ValidRecord(p)

C10_CountContract ==
  (Batch(ret) /\ ret.ok) =>
    /\ ret.stats.totalPatients = Len(ret.patients)
    /\ ret.stats.tasksGenerated = Len(ret.tasks)
    /\ ret.stats.tasksGenerated <= ret.stats.totalPatients
    /\ ret.stats.totalPatients - ret.stats.tasksGenerated = Count(ret.patients, Invalid)
    /\ ret.stats.totalPatients - ret.stats.tasksGenerated = ret.logged
    /\ (ret.stats.tasksGenerated < ret.stats.totalPatients)
         <=> (\E p \in Range(ret.patients) : Invalid(p))

\* one of two records was skipped
C10_Witness ==
  /\ ret.op = "generateTasksForPatients" /\ ret.ok
  /\ ret.stats.totalPatients = 2
  /\ ret.stats.tasksGenerated = 1

(***************************************************************************)
(* C11. Output ordering: the patient ids of the tasks of a returned batch  *)
(* are the ids of the input records with the invalid records removed, in   *)
(* input order (not sorted by offset or fire time).                        *)
(***************************************************************************)
\* the ids of the valid records of a patients array, in input order
ValidIds(patients) ==
  LET valid == SelectSeq(patients, ValidRecord)
  IN [i \in DOMAIN valid |-> valid[i].id]

PatientIds(tasks) == [i \in DOMAIN tasks |-> tasks[i].patientId]

C11_OutputOrdering ==
  (Batch(ret) /\ ret.ok) => PatientIds(ret.tasks) = ValidIds(ret.patients)

\* the patient that fires later comes first in the input and in the output
C11_Witness ==
  /\ ret.op = "generateTasksForPatients" /\ ret.ok
  /\ Len(ret.patients) = 2
  /\ Len(ret.tasks) = 2
  /\ ret.tasks[1].patientId = ret.patients[1].id
  /\ ret.tasks[1].fireAt > ret.tasks[2].fireAt

(***************************************************************************)
(* C12. stats.binDistribution of a returned batch has exactly binCount     *)
(* entries, with the keys 0..binCount-1, whatever the input list holds.    *)
(***************************************************************************)
C12_BinDistributionKeys ==
  (Batch(ret) /\ ret.ok) =>
    /\ DOMAIN ret.stats.binDistribution = 0..(ret.self.binCount - 1)
    /\ Cardinality(DOMAIN ret.stats.binDistribution) = ret.self.binCount

\* 300 bins, one record skipped and one scheduled
C12_Witness ==
  /\ ret.op = "generateTasksForPatients" /\ ret.ok
  /\ ret.self.binCount = 300
  /\ Len(ret.patients) = 2 /\ Len(ret.tasks) = 1
  /\ Cardinality(DOMAIN ret.stats.binDistribution) = 300
  /\ \E k \in DOMAIN ret.stats.binDistribution : ret.stats.binDistribution[k] = 1

(***************************************************************************)
(* C13. Every emitted task carries the id of its input record, status      *)
(* 'pending', consecutiveFailures 0 and no completedAt, however many       *)
(* cycles were generated for the patient before; no task is emitted in     *)
(* status in_progress, completed or failed.                                *)
(***************************************************************************)
C13_FreshPendingTasks ==
  Generating(ret) =>
    /\ ret.ok => PatientIds(ret.tasks) = ValidIds(ret.patients)
    /\ \A t \in Range(ret.tasks) :
         /\ t.status = "pending"
         /\ t.status \notin {"in_progress", "completed", "failed"}
         /\ t.consecutiveFailures = 0
         /\ t.completedAt = Undefined

\* the task of a patient's third cycle, after the one of its second cycle
C13_Witness ==
  /\ ConsecutiveCycles
  /\ held.cycleStart >= held.self.intervalSeconds * 1000
  /\ \E t1 \in Range(held.tasks), t2 \in Range(ret.tasks) :
       /\ t1.patientId = t2.patientId
       /\ t2.id > t1.id
       /\ t2.status = "pending" /\ t2.consecutiveFailures = 0

(***************************************************************************)
(* C14. Task identities are fresh: no two tasks emitted by any calls have  *)
(* the same id, within one batch or across calls, also when they are for   *)
(* the same patient and the same cycle start.                              *)
(***************************************************************************)
TaskIds(call) == {t.id : t \in Range(call.tasks)}

DistinctIds(tasks) ==
  \A i, j \in DOMAIN tasks : i # j => tasks[i].id # tasks[j].id

C14_FreshTaskIds ==
  /\ DistinctIds(ret.tasks)
  /\ DistinctIds(held.tasks)
  /\ TaskIds(held) \cap TaskIds(ret) = {}

\* the same patient and cycle start in an earlier call and in a later batch
C14_Witness ==
  /\ Generating(held) /\ Batch(ret)
  /\ held.cycleStart = ret.cycleStart
  /\ Len(ret.tasks) = 2
  /\ ret.tasks[1].patientId = ret.tasks[2].patientId
  /\ \E t \in Range(held.tasks) : t.patientId = ret.tasks[1].patientId

(***************************************************************************)
(* C15. computeFireTime(x, c, n) is c plus computeOffset(x, n) seconds (it *)
(* fails when computeOffset does); every emitted task fires at its cycle   *)
(* start plus its offsetSeconds, the offset of its patient id for the      *)
(* generator's configured binCount.                                        *)
(***************************************************************************)
C15_FireTimeFromOffset ==
  /\ ret.op = "computeFireTime" =>
       LET offset == computeOffset(ret.id, ret.binCount)
       IN /\ ret.ok = offset.ok
          /\ ret.ok => ret.value = ret.cycleStart + offset.v * 1000
  /\ Generating(ret) =>
       \A t \in Range(ret.tasks) :
         /\ t.fireAt = ret.cycleStart + t.offsetSeconds * 1000
         /\ computeOffset(t.patientId, Num(ret.self.binCount)) = Return(t.offsetSeconds)

\* computeFireTime('a', new Date(500), 3) is 2 s after the cycle start
C15_Witness ==
  /\ ret.op = "computeFireTime" /\ ret.ok
  /\ ret.id = Str(<<97>>) /\ ret.binCount = Num(3)
  /\ ret.cycleStart = 500 /\ ret.value = 2500

(***************************************************************************)
(* C16. computeOffset and computeFireTime throw when the identifier is     *)
(* empty (or missing) or whitespace-only or when binCount <= 0, and return *)
(* a value for every other identifier string and binCount > 0.             *)
(***************************************************************************)
C16_InvalidArgument ==
  (ret.op \in {"computeOffset", "computeFireTime"}
     /\ ret.id.t \in {"string", "undefined"})
    => (ret.ok <=> (NonBlankString(ret.id) /\ BinsOf(ret) > 0))

\* computeFireTime(' ', c, 2) threw
C16_Witness ==
  /\ ret.op = "computeFireTime" /\ ~ret.ok
  /\ ret.id = Str(<<32>>) /\ ret.binCount = Num(2)

\* computeOffset(' a', 3) returned an offset
C16_WitnessReturned ==
  /\ ret.op = "computeOffset" /\ ret.ok
  /\ ret.id = Str(<<32, 97>>) /\ ret.binCount = Num(3) /\ ret.value = 1

(***************************************************************************)
(* C17. generateTasksForNextCycle schedules the cycle that starts at the   *)
(* smallest multiple of intervalSeconds (in ms) that is >= the clock value *)
(* read at the call, the clock value itself when it is on a boundary, and  *)
(* returns what generateTasksForPatients returns for that cycle start.     *)
(***************************************************************************)
\* the smallest multiple of intervalMs that is >= clock
LeastBoundary(clock, intervalMs) ==
  CHOOSE b \in {k * intervalMs : k \in 0..((clock \div intervalMs) + 1)} :
    /\ b >= clock
    /\ b - intervalMs < clock

\* a task list without the task identities
WithoutIds(tasks) == [i \in DOMAIN tasks |-> [tasks[i] EXCEPT !.id = 0]]

C17_NextCycleBoundary ==
  ret.op = "generateTasksForNextCycle" =>
    LET boundary == LeastBoundary(ret.clock, ret.self.intervalSeconds * 1000)
        direct == generateTasksForPatients(ret.self, ret.patients, boundary, ret.clock, 0)
    IN /\ ret.cycleStart = boundary
       /\ (ret.clock % (ret.self.intervalSeconds * 1000) = 0) => ret.cycleStart = ret.clock
       /\ \A t \in Range(ret.tasks) : t.fireAt - t.offsetSeconds * 1000 = boundary
       /\ ret.ok = direct.ok
       /\ WithoutIds(ret.tasks) = WithoutIds(direct.tasks)
       /\ ret.stats = direct.stats

\* called at 2001 ms with a two-second interval: the cycle starts at 4000 ms
C17_Witness ==
  /\ ret.op = "generateTasksForNextCycle" /\ ret.ok
  /\ ret.self.intervalSeconds = 2
  /\ ret.clock = 2001
  /\ \E t \in Range(ret.tasks) : t.offsetSeconds = 1 /\ t.fireAt = 5000

\* called on the boundary at 2000 ms: the cycle starts at 2000 ms
C17_WitnessOnBoundary ==
  /\ ret.op = "generateTasksForNextCycle" /\ ret.ok
  /\ ret.self.intervalSeconds = 2
  /\ ret.clock = 2000
  /\ \E t \in Range(ret.tasks) : t.offsetSeconds = 1 /\ t.fireAt = 3000

(***************************************************************************)
(* C18. The offset of a patient is the hash of the patient id modulo the   *)
(* interval length in seconds, for every accepted configuration: every     *)
(* offset a generator hands out is SHA256(id) % intervalSeconds.           *)
(***************************************************************************)
\* the first 32 bits of the digest of a string id, modulo n
HashMod(id, n) == WordMod(ParseHex8(HexPrefix8(Digest(id.s))), n)

C18_OffsetModuloInterval ==
  /\ (ret.op = "getPatientOffset" /\ ret.ok)
       => ret.value = HashMod(ret.id, ret.self.intervalSeconds)
  /\ Generating(ret) =>
       \A t \in Range(ret.tasks) :
         /\ t.offsetSeconds = HashMod(t.patientId, ret.self.intervalSeconds)
         /\ t.fireAt = ret.cycleStart + HashMod(t.patientId, ret.self.intervalSeconds) * 1000

\* the documented formula and the code agree when binCount = intervalSeconds
C18_AgreesOnDefaultConfig ==
  (Generating(ret) /\ ret.self.binCount = ret.self.intervalSeconds) =>
    \A t \in Range(ret.tasks) :
      t.offsetSeconds = HashMod(t.patientId, ret.self.intervalSeconds)

(***************************************************************************)
(* C19. getPatientOffset(id) of a generator is computeOffset(id, its       *)
(* configured binCount), and it is the offsetSeconds of every task the     *)
(* generator emits for id, in every cycle.                                 *)
(***************************************************************************)
\* the offsets the tasks of a call carry for an identifier
TaskOffsets(call, id) ==
  {t.offsetSeconds : t \in {u \in Range(call.tasks) : u.patientId = id}}

\* read is a getPatientOffset call that returned, other a generating call on the
\* same generator
OffsetReadAndTasks(read, other) ==
  /\ read.op = "getPatientOffset" /\ read.ok
  /\ Generating(other)
  /\ other.self = read.self

\* read is a getPatientOffset call, other a computeOffset call for the same
\* identifier with the generator's bin count
OffsetReadAndComputed(read, other) ==
  /\ read.op = "getPatientOffset"
  /\ other.op = "computeOffset"
  /\ other.id = read.id
  /\ BinsOf(other) = read.self.binCount

C19_PatientOffset ==
  /\ ret.op = "getPatientOffset" =>
       LET direct == computeOffset(ret.id, Num(ret.self.binCount))
       IN ret.ok = direct.ok /\ ret.value = direct.v
  /\ OffsetReadAndComputed(ret, held) => (ret.ok = held.ok /\ ret.value = held.value)
  /\ OffsetReadAndComputed(held, ret) => (ret.ok = held.ok /\ ret.value = held.value)
  /\ OffsetReadAndTasks(ret, held) => TaskOffsets(held, ret.id) \subseteq {ret.value}
  /\ OffsetReadAndTasks(held, ret) => TaskOffsets(ret, held.id) \subseteq {held.value}

\* the offset read after the patient's task of a later cycle was generated
C19_Witness ==
  /\ OffsetReadAndTasks(ret, held)
  /\ held.cycleStart >= held.self.intervalSeconds * 1000
  /\ ret.value = 1
  /\ TaskOffsets(held, ret.id) = {1}

(***************************************************************************)
(* C20. Statelessness: no call on a constructed generator, successful or   *)
(* failing, changes its configuration; getConfig returns the values the    *)
(* generator has had since construction; a batch call yields the same      *)
(* patientId / offsetSeconds / fireAt / status sequence and the same       *)
(* binDistribution as on a freshly constructed generator with the same     *)
(* configuration.                                                          *)
(***************************************************************************)
\* what a schedule says of each task
Scheduled(tasks) ==
  [i \in DOMAIN tasks |->
     [patientId |-> tasks[i].patientId, offsetSeconds |-> tasks[i].offsetSeconds,
      fireAt |-> tasks[i].fireAt, status |-> tasks[i].status]]

\* new TaskGenerator(g.getConfig())
FreshGenerator(g) ==
  TaskGenerator([intervalSeconds |-> Num(getConfig(g).intervalSeconds),
                 binCount |-> Num(getConfig(g).binCount)])

\* what a step leaves of the generator, and what a call returns on it
StatelessStep ==
  /\ (ret'.op = "new" /\ ret'.ok) \/ gen' = gen
  /\ ret'.op = "getConfig" =>
       ret'.cfg = [intervalSeconds |-> gen.intervalSeconds, binCount |-> gen.binCount]
  /\ Batch(ret') =>
       LET fresh == FreshGenerator(gen)
           first == generateTasksForPatients(fresh.v, ret'.patients, ret'.cycleStart,
                                             ret'.clock, 0)
       IN /\ fresh.ok
          /\ ret'.ok = first.ok
          /\ Scheduled(ret'.tasks) = Scheduled(first.tasks)
          /\ ret'.stats.binDistribution = first.stats.binDistribution

C20_Stateless == [][StatelessStep]_vars

\* a batch with a skipped record on a generator that has scheduled a task before
C20_Witness ==
  /\ ret.op = "generateTasksForPatients" /\ ret.ok
  /\ ret.self = gen
  /\ Len(ret.patients) = 2 /\ Len(ret.tasks) = 1
  /\ ret.logged = 1
  /\ uuidCount = 2

(***************************************************************************)
(* C21. analyzeDistribution(ids, n) for valid ids and n > 0 returns a      *)
(* histogram with exactly the keys 0..n-1 in which bin b holds the number  *)
(* of ids with offset b, so the counts sum to the number of ids; min and   *)
(* max are the smallest and largest bin count (zero bins included), mean   *)
(* is |ids| / n, and min <= mean <= max.                                   *)
(***************************************************************************)
\* a hasher analysis call with valid identifiers and a positive bin count
ValidAnalysis(call) ==
  /\ call.op = "analyzeDistribution"
  /\ \A i \in DOMAIN call.ids : NonBlankString(call.ids[i])
  /\ BinsOf(call) > 0

\* the positions of the identifiers that hash to bin b of n
IdsInBin(ids, n, b) == {i \in DOMAIN ids : HashMod(ids[i], n) = b}

\* the sum of the counts of the bins in S
RECURSIVE SumCounts(_, _)
SumCounts(m, S) ==
  IF S = {} THEN 0
  ELSE LET k == CHOOSE x \in S : TRUE IN m[k] + SumCounts(m, S \ {k})

Populated(m) == {b \in DOMAIN m : m[b] # 0}

C21_Histogram ==
  ValidAnalysis(ret) =>
    LET n == BinsOf(ret)
        hist == ret.analysis.binCounts
    IN /\ ret.ok
       /\ DOMAIN hist = 0..(n - 1)
       /\ \A b \in 0..(n - 1) : hist[b] = Cardinality(IdsInBin(ret.ids, n, b))
       /\ SumCounts(hist, Populated(hist)) = Len(ret.ids)
       /\ ret.analysis.min.kind = "finite" /\ ret.analysis.min.den = 1
       /\ ret.analysis.max.kind = "finite" /\ ret.analysis.max.den = 1
       /\ \E b \in 0..(n - 1) : hist[b] = ret.analysis.min.num
       /\ \E b \in 0..(n - 1) : hist[b] = ret.analysis.max.num
       /\ \A b \in 0..(n - 1) :
            ret.analysis.min.num <= hist[b] /\ hist[b] <= ret.analysis.max.num
       /\ ret.analysis.mean = Real(Len(ret.ids), n)
       /\ RealLeq(ret.analysis.min, ret.analysis.mean)
       /\ RealLeq(ret.analysis.mean, ret.analysis.max)

\* analyzeDistribution(['a', 'c'], 3): both in bin 2, bins 0 and 1 empty
C21_Witness ==
  /\ ret.op = "analyzeDistribution" /\ ret.ok
  /\ ret.ids = <<Str(<<97>>), Str(<<99>>)>> /\ ret.binCount = Num(3)
  /\ ret.analysis.binCounts[2] = 2
  /\ ret.analysis.min = Real(0, 1) /\ ret.analysis.max = Real(2, 1)
  /\ ret.analysis.mean = Real(2, 3)

(***************************************************************************)
(* C22. isDistributionAcceptable(ids, n, maxCV) returns true exactly when  *)
(* the coefficient of variation stdDev/mean of the per-bin counts          *)
(* (population standard deviation, divisor n) is <= maxCV, the coefficient *)
(* being 0 when the mean is not positive; for an empty identifier list it  *)
(* returns true exactly when maxCV >= 0.                                   *)
(***************************************************************************)
\* the threshold a call works with, 0.15 when it is omitted
MaxCV(call) == IF call.maxVariance = Omitted THEN Real(3, 20) ELSE call.maxVariance

\* the sum of the squared bin counts: the pairs of identifiers that share a bin
SumOfSquares(ids, n) ==
  Cardinality({p \in (DOMAIN ids) \X (DOMAIN ids) :
                 HashMod(ids[p[1]], n) = HashMod(ids[p[2]], n)})

\* stdDev / mean <= p / q for S identifiers in n bins, S > 0 and p >= 0:
\* (n * sum c^2 - S^2) / S^2 <= p^2 / q^2
WithinCV(ids, n, max) ==
  (n * SumOfSquares(ids, n) - Len(ids) * Len(ids)) * (max.den * max.den)
    <= (max.num * max.num) * (Len(ids) * Len(ids))

AcceptanceIsCVTest ==
  (/\ ret.op = "isDistributionAcceptable"
   /\ \A i \in DOMAIN ret.ids : NonBlankString(ret.ids[i])
   /\ BinsOf(ret) > 0)
    => /\ ret.ok
       /\ ret.accepted <=>
            /\ MaxCV(ret).num >= 0
            /\ ret.ids = <<>> \/ WithinCV(ret.ids, BinsOf(ret), MaxCV(ret))

C22_AcceptableIffCV ==
  /\ AcceptanceIsCVTest
  /\ (ret.op = "isDistributionAcceptable" /\ ret.ids = <<>>)
       => (ret.ok /\ (ret.accepted <=> MaxCV(ret).num >= 0))

\* isDistributionAcceptable(['a', 'a'], 2, 0.5): counts 2 and 0, CV 1, rejected
C22_Witness ==
  /\ ret.op = "isDistributionAcceptable" /\ ret.ok
  /\ ret.ids = <<Str(<<97>>), Str(<<97>>)>> /\ ret.binCount = Num(2)
  /\ ret.maxVariance = Real(1, 2)
  /\ ~ret.accepted

\* the same population with maxCV = 1: CV = maxCV, accepted
C22_WitnessOnThreshold ==
  /\ ret.op = "isDistributionAcceptable" /\ ret.ok
  /\ ret.ids = <<Str(<<97>>), Str(<<97>>)>> /\ ret.binCount = Num(2)
  /\ ret.maxVariance = Real(1, 1)
  /\ ret.accepted

\* C22 as stated: an empty identifier list with n > 0 is accepted whatever maxCV is
C22_EmptyAlwaysAccepted ==
  /\ AcceptanceIsCVTest
  /\ (ret.op = "isDistributionAcceptable" /\ ret.ids = <<>> /\ BinsOf(ret) > 0)
       => (ret.ok /\ ret.accepted)

(***************************************************************************)
(* C24. In every generateTasksForPatients result binDistribution[b] is the *)
(* number of returned tasks whose offsetSeconds is b, for every bin b; the *)
(* bin counts sum to stats.tasksGenerated and skipped records are in no    *)
(* bin.                                                                    *)
(***************************************************************************)
TasksInBin(tasks, b) == {i \in DOMAIN tasks : tasks[i].offsetSeconds = b}

C24_BinCountsMatchTasks ==
  (Batch(ret) /\ ret.ok) =>
    LET bins == ret.stats.binDistribution
    IN /\ \A b \in DOMAIN bins : bins[b] = Cardinality(TasksInBin(ret.tasks, b))
       /\ \A i \in DOMAIN ret.tasks : ret.tasks[i].offsetSeconds \in DOMAIN bins
       /\ SumCounts(bins, Populated(bins)) = ret.stats.tasksGenerated
       /\ SumCounts(bins, Populated(bins)) = Count(ret.patients, ValidRecord)

\* two tasks in one bin
C24_Witness ==
  /\ ret.op = "generateTasksForPatients" /\ ret.ok
  /\ Len(ret.tasks) = 2
  /\ ret.stats.binDistribution[ret.tasks[1].offsetSeconds] = 2

\* a skipped record next to a scheduled one
C24_WitnessSkipped ==
  /\ ret.op = "generateTasksForPatients" /\ ret.ok
  /\ Len(ret.patients) = 2 /\ ret.logged = 1
  /\ SumCounts(ret.stats.binDistribution, Populated(ret.stats.binDistribution)) = 1

(***************************************************************************)
(* C25. An omitted binCount defaults to 300 whatever intervalSeconds is:   *)
(* constructing with only intervalSeconds = I gives binCount 300 when      *)
(* I >= 300 and fails when 0 < I < 300; with I > 300 every fire time falls *)
(* in the first 300 seconds of the cycle.                                  *)
(***************************************************************************)
OnlyInterval(call) ==
  /\ call.op = "new"
  /\ call.config.binCount = Undefined
  /\ call.config.intervalSeconds.t = "number"
  /\ call.config.intervalSeconds.n > 0

C25_DefaultBinCount ==
  /\ OnlyInterval(ret) =>
       LET I == ret.config.intervalSeconds.n
       IN /\ ret.ok <=> I >= 300
          /\ ret.ok => /\ ret.self.binCount = 300
                       /\ ret.self.intervalSeconds = I
          /\ ~ret.ok => ret.err = "Bin count cannot exceed interval seconds"
  /\ (Generating(ret) /\ ret.self.binCount = 300 /\ ret.self.intervalSeconds > 300) =>
       \A i \in DOMAIN ret.tasks :
         /\ ret.tasks[i].fireAt >= ret.cycleStart
         /\ ret.tasks[i].fireAt < ret.cycleStart + 300 * 1000

\* intervalSeconds = 301 alone: 300 bins, and a task in the first 300 seconds
C25_Witness ==
  /\ Generating(ret) /\ ret.ok
  /\ ret.self = [live |-> TRUE, intervalSeconds |-> 301, binCount |-> 300]
  /\ ret.tasks # <<>>
  /\ ret.tasks[1].offsetSeconds > 0

C25_WitnessConstructed ==
  /\ OnlyInterval(ret) /\ ret.ok
  /\ ret.config.intervalSeconds = Num(301)
  /\ ret.self.binCount = 300

\* intervalSeconds = 2 alone is rejected
C25_WitnessRejected ==
  /\ OnlyInterval(ret) /\ ~ret.ok
  /\ ret.config.intervalSeconds = Num(2)

(***************************************************************************)
(* C26. Under a non-decreasing clock, a generateTasksForNextCycle call     *)
(* made in the window (k*I, (k+1)*I] schedules the cycle (k+1)*I; the call *)
(* made in the following window schedules the cycle exactly I later, and   *)
(* every patient in both results fires exactly I seconds later: no cycle   *)
(* boundary is skipped.                                                    *)
(***************************************************************************)
Windows == -1 .. MaxCycles

\* the clock reading lies in (k*I, (k+1)*I]
InWindow(clock, k, self) ==
  /\ k * self.intervalSeconds * 1000 < clock
  /\ clock <= (k + 1) * self.intervalSeconds * 1000

NextCycleCalls ==
  /\ held.op = "generateTasksForNextCycle" /\ held.ok
  /\ ret.op = "generateTasksForNextCycle" /\ ret.ok
  /\ held.self = ret.self
  /\ held.clock <= ret.clock

C26_ConsecutiveWindows ==
  NextCycleCalls =>
    \A k \in Windows :
      (InWindow(held.clock, k, ret.self) /\ InWindow(ret.clock, k + 1, ret.self)) =>
        /\ held.cycleStart = (k + 1) * ret.self.intervalSeconds * 1000
        /\ ret.cycleStart = (k + 2) * ret.self.intervalSeconds * 1000
        /\ ret.cycleStart - held.cycleStart = ret.self.intervalSeconds * 1000
        /\ \A i \in DOMAIN held.tasks, j \in DOMAIN ret.tasks :
             held.tasks[i].patientId = ret.tasks[j].patientId =>
               ret.tasks[j].fireAt - held.tasks[i].fireAt
                 = ret.self.intervalSeconds * 1000

\* a call at 2000 ms and one at 2001 ms, two-second cycles: the patient fires
\* at 3000 ms and then at 5000 ms
C26_Witness ==
  /\ NextCycleCalls
  /\ ret.self.intervalSeconds = 2
  /\ held.clock = 2000 /\ ret.clock = 2001
  /\ \E i \in DOMAIN held.tasks, j \in DOMAIN ret.tasks :
       /\ held.tasks[i].patientId = ret.tasks[j].patientId
       /\ held.tasks[i].fireAt = 3000
       /\ ret.tasks[j].fireAt = 5000

(***************************************************************************)
(* C27. Two generateTasksForNextCycle calls whose clock readings fall in   *)
(* the same window (k*I, (k+1)*I] compute the same cycle start and give    *)
(* every patient the same offsetSeconds and fireAt, while no task id of    *)
(* one result occurs in the other.                                         *)
(***************************************************************************)
C27_SameWindow ==
  NextCycleCalls =>
    \A k \in Windows :
      (InWindow(held.clock, k, ret.self) /\ InWindow(ret.clock, k, ret.self)) =>
        /\ ret.cycleStart = held.cycleStart
        /\ \A i \in DOMAIN held.tasks, j \in DOMAIN ret.tasks :
             /\ held.tasks[i].patientId = ret.tasks[j].patientId =>
                  /\ ret.tasks[j].offsetSeconds = held.tasks[i].offsetSeconds
                  /\ ret.tasks[j].fireAt = held.tasks[i].fireAt
             /\ ret.tasks[j].id # held.tasks[i].id

\* calls at 1 ms and at 2000 ms, two-second cycles: both schedule the cycle
\* starting at 2000 ms
C27_Witness ==
  /\ NextCycleCalls
  /\ ret.self.intervalSeconds = 2
  /\ held.clock = 1 /\ ret.clock = 2000
  /\ ret.cycleStart = 2000
  /\ \E i \in DOMAIN held.tasks, j \in DOMAIN ret.tasks :
       /\ held.tasks[i].patientId = ret.tasks[j].patientId
       /\ held.tasks[i].fireAt = 3000 /\ ret.tasks[j].fireAt = 3000
       /\ held.tasks[i].id # ret.tasks[j].id

(***************************************************************************)
(* C28. No task of generateTasksForNextCycle is scheduled before the clock *)
(* value now read at the start of the call: now <= fireAt <                *)
(* now + 2 * intervalSeconds (in ms), and fireAt lies in                   *)
(* [nextCycleStart, nextCycleStart + intervalSeconds).                     *)
(***************************************************************************)
C28_NotInThePast ==
  (ret.op = "generateTasksForNextCycle" /\ ret.ok) =>
    LET intervalMs == ret.self.intervalSeconds * 1000
        nextCycleStart == LeastBoundary(ret.clock, intervalMs)
    IN \A t \in Range(ret.tasks) :
         /\ ret.clock <= t.fireAt
         /\ t.fireAt < ret.clock + 2 * intervalMs
         /\ nextCycleStart <= t.fireAt
         /\ t.fireAt < nextCycleStart + intervalMs

\* called at 1 ms with two-second cycles: a task on the boundary at 2000 ms
C28_Witness ==
  /\ ret.op = "generateTasksForNextCycle" /\ ret.ok
  /\ ret.self.intervalSeconds = 2
  /\ ret.clock = 1
  /\ \E t \in Range(ret.tasks) : t.offsetSeconds = 0 /\ t.fireAt = 2000

\* called at 2001 ms: a task in the last second of the cycle after, at 5000 ms
C28_WitnessLate ==
  /\ ret.op = "generateTasksForNextCycle" /\ ret.ok
  /\ ret.self.intervalSeconds = 2
  /\ ret.clock = 2001
  /\ \E t \in Range(ret.tasks) : t.offsetSeconds = 1 /\ t.fireAt = 5000

(***************************************************************************)
(* C29. analyzeDistribution has no partial-failure policy: when an         *)
(* identifier of the list is empty or whitespace-only, the hasher function *)
(* and the TaskGenerator method throw and return no statistics, whereas    *)
(* generateTasksForPatients on the same records skips them and returns.    *)
(***************************************************************************)
BlankString(v) == v.t = "string" /\ ~NonBlankString(v)
BlankRecord(p) == p.t = "object" /\ BlankString(p.id)

C29_NoPartialFailure ==
  /\ (ret.op = "analyzeDistribution" /\ \E i \in DOMAIN ret.ids : BlankString(ret.ids[i])) =>
       /\ ~ret.ok
       /\ ret.analysis = NoAnalysis
  /\ (/\ ret.op = "TaskGenerator.analyzeDistribution"
      /\ \E i \in DOMAIN ret.patients : BlankRecord(ret.patients[i])) =>
       /\ ~ret.ok
       /\ ret.analysis = NoAnalysis
       /\ (\A i \in DOMAIN ret.patients : TypedRecord(ret.patients[i])) =>
            \A c \in CycleStarts :
              LET batch == generateTasksForPatients(ret.self, ret.patients, c, ret.clock, 0)
              IN /\ batch.ok
                 /\ Len(batch.tasks) = Count(ret.patients, ValidRecord)
                 /\ batch.logged = Count(ret.patients, Invalid)
                 /\ batch.logged >= 1

\* the method on a usable record followed by a blank one: it throws, where the
\* batch call returns one task
C29_Witness ==
  /\ ret.op = "TaskGenerator.analyzeDistribution" /\ ~ret.ok
  /\ ret.patients = <<Patient(Str(<<97>>)), Patient(Str(<<32>>))>>
  /\ ret.err = "Patient ID is required and cannot be empty"
  /\ Len(generateTasksForPatients(ret.self, ret.patients, 0, ret.clock, 0).tasks) = 1

\* the hasher function on ['a', '']
C29_WitnessHasher ==
  /\ ret.op = "analyzeDistribution" /\ ~ret.ok
  /\ ret.ids = <<Str(<<97>>), Str(<<>>)>>
  /\ ret.binCount = Num(2)

(***************************************************************************)
(* C30. For a population in which every record has a valid id, the         *)
(* binCounts of generator.analyzeDistribution(patients) equal, bin by bin, *)
(* stats.binDistribution of generateTasksForPatients(patients, c), for     *)
(* every cycle start c.                                                    *)
(***************************************************************************)
C30_HistogramsAgree ==
  (/\ ret.op = "TaskGenerator.analyzeDistribution"
   /\ \A i \in DOMAIN ret.patients : ValidRecord(ret.patients[i])) =>
    /\ ret.ok
    /\ \A c \in CycleStarts :
         LET batch == generateTasksForPatients(ret.self, ret.patients, c, ret.clock, 0)
         IN /\ batch.ok
            /\ DOMAIN batch.stats.binDistribution = DOMAIN ret.analysis.binCounts
            /\ \A b \in DOMAIN ret.analysis.binCounts :
                 batch.stats.binDistribution[b] = ret.analysis.binCounts[b]

\* 'a' in bin 0 and 'c' in bin 1 of a two-bin generator
C30_Witness ==
  /\ ret.op = "TaskGenerator.analyzeDistribution" /\ ret.ok
  /\ ret.self.binCount = 2
  /\ ret.patients = <<Patient(Str(<<97>>)), Patient(Str(<<99>>))>>
  /\ ret.analysis.binCounts[0] = 1 /\ ret.analysis.binCounts[1] = 1

\* both records in the same bin of the default 300
C30_WitnessDefault ==
  /\ ret.op = "TaskGenerator.analyzeDistribution" /\ ret.ok
  /\ ret.self.binCount = 300
  /\ ret.patients = <<Patient(Str(<<97>>)), Patient(Str(<<97>>))>>
  /\ ret.analysis.binCounts[110] = 2

(***************************************************************************)
(* C23. Distribution evenness: for the 10,000 distinct identifiers         *)
(* patient-0 .. patient-9999 and 300 bins, the mean count per bin is       *)
(* 10000/300, the largest count is less than 3 times the mean, and no bin  *)
(* is empty.                                                               *)
(***************************************************************************)
\* identifiers of the population whose tabulated word is compared with the
\* digest computed by Sha256: one per number of digits, and the last one
DigestSamples == {0, 10, 100, 1000, TestPopulationSize - 1}

TabulatedAsComputed(samples) ==
  \A i \in samples :
    ParseHex8(HexPrefix8(Sha256(generatePatientId(i).s))) = PatientDigestWords[i + 1]

PopulationAnalysed(call) ==
  /\ call.op = "analyzeDistribution.population"
  /\ call.self.binCount = 300

C23_Evenness ==
  PopulationAnalysed(ret) =>
    /\ ret.ok
    /\ ret.value = TestPopulationSize
    /\ Len(PatientDigestWords) = TestPopulationSize
    /\ TabulatedAsComputed(DigestSamples \cap 0..(ret.value - 1))
    /\ DOMAIN ret.analysis.binCounts = 0..299
    /\ SumCounts(ret.analysis.binCounts, DOMAIN ret.analysis.binCounts) = TestPopulationSize
    /\ ret.analysis.mean = Real(TestPopulationSize, 300)
    /\ ret.analysis.max.kind = "finite"
    /\ ~RealLeq(RealMul(Real(3, 1), ret.analysis.mean), ret.analysis.max)
    /\ RealPositive(ret.analysis.min)
    /\ \A b \in 0..299 : ret.analysis.binCounts[b] > 0

\* the statistics of the population: between 20 and 52 identifiers per bin
C23_Witness ==
  /\ PopulationAnalysed(ret) /\ ret.ok
  /\ ret.value = TestPopulationSize
  /\ ret.analysis.min = Real(20, 1)
  /\ ret.analysis.max = Real(52, 1)
  /\ ret.analysis.mean = Real(100, 3)
====
